---- MODULE Spec2Model ----
(***************************************************************************)
(* VectorBeats ml-service: the vector collection manager and hybrid        *)
(* search-fusion engine (app/services/vector_service.py), modelled as a    *)
(* state machine over the backend's collections.                           *)
(*                                                                         *)
(* Representation.                                                         *)
(*  - A vector (List[float]) is kept run-length encoded: a sequence of     *)
(*    runs [n |-> count, x |-> value] in which no two adjacent runs carry  *)
(*    the same value and every count is positive.  Every list has exactly  *)
(*    one such encoding, so list equality is encoding equality, len() is   *)
(*    the sum of the counts and list + list is concatenation followed by   *)
(*    joining the two runs that meet.                                      *)
(*  - A dict is a function whose DOMAIN is its key set.                    *)
(*  - An Optional value is a set: {} is None, {v} is v.                    *)
(*  - A str used by the text heuristics is a sequence of one-character     *)
(*    strings.                                                             *)
(*  - uuid4() is a fresh-number supply (nextId); datetime.now() is a       *)
(*    clock that advances at every reading.                                *)
(*  - Scores are hundredths (0.85 is 85), weights are tenths (0.4 is 4),   *)
(*    so a weighted score is in thousandths.                               *)
(***************************************************************************)
EXTENDS Integers, Sequences, FiniteSets, TLC

VARIABLES
    store,      \* backend: collection name -> set of points [id, vector, payload]
    schemas,    \* backend: collection name -> [size, distance, indexes] it was made with
    nextId,     \* the next value uuid4() hands out
    clock,      \* the next value datetime.now() reads
    writes,     \* mutating calls made so far, single and batch (bounds the exploration)
    op,         \* the operation that ran last
    args,       \* its arguments
    status,     \* "ok" when it returned, "error" when it raised
    err,        \* which raise it was ("" when it returned)
    result,     \* its return value
    calls,      \* the backend requests it issued, in order
    fusion      \* the hybrid_search call in progress: where it is and what it holds

vars ==
    <<store, schemas, nextId, clock, writes, op, args, status, err, result, calls, fusion>>

----------------------------------------------------------------------------
(* Generic helpers *)

Range(s) == {s[i] : i \in DOMAIN s}

Max(a, b) == IF a >= b THEN a ELSE b

Min(a, b) == IF a <= b THEN a ELSE b

RECURSIVE SumSeq(_)
SumSeq(s) == IF s = <<>> THEN 0 ELSE Head(s) + SumSeq(Tail(s))

\* Python's {**m, **o}: the keys of both, o winning
dict_merge(m, o) ==
    [k \in (DOMAIN m) \cup (DOMAIN o) |-> IF k \in DOMAIN o THEN o[k] ELSE m[k]]

\* the empty dict
EmptyDict == [k \in {} |-> 0]

None == {}

Some(v) == {v}

TheValue(o) == CHOOSE v \in o : TRUE

----------------------------------------------------------------------------
(* Vectors: List[float], run-length encoded *)

\* n copies of x
Const(n, x) == IF n = 0 THEN <<>> ELSE <<[n |-> n, x |-> x]>>

\* len(v)
VLen(v) == SumSeq([i \in DOMAIN v |-> v[i].n])

\* a + b on lists
VConcat(a, b) ==
    IF a = <<>> THEN b
    ELSE IF b = <<>> THEN a
    ELSE IF a[Len(a)].x = b[1].x
         THEN SubSeq(a, 1, Len(a) - 1)
              \o <<[n |-> a[Len(a)].n + b[1].n, x |-> b[1].x]>>
              \o Tail(b)
         ELSE a \o b

----------------------------------------------------------------------------
(* Configuration: VectorService.__init__ *)

music_collection == "music_vectors"

image_collection == "image_vectors"

audio_collection == "audio_vectors"

hybrid_collection == "hybrid_vectors"

music_size == 128

image_size == 512

audio_size == 128

hybrid_size == 640

collection_configs ==
    [c \in {music_collection, image_collection, audio_collection, hybrid_collection} |->
        CASE c = music_collection -> [size |-> music_size, distance |-> "Cosine"]
          [] c = image_collection -> [size |-> image_size, distance |-> "Cosine"]
          [] c = audio_collection -> [size |-> audio_size, distance |-> "Cosine"]
          [] c = hybrid_collection -> [size |-> hybrid_size, distance |-> "Cosine"]]

Configured == DOMAIN collection_configs

\* collection_configs.items(), in the dict's order
configured_in_order ==
    <<music_collection, image_collection, audio_collection, hybrid_collection>>

\* index_fields of _create_indexes
index_fields == {"track_id", "genre", "mood", "tempo_category", "artist", "album"}

\* what the service asks the backend to create a collection with, and its indexes
configured_schema(collection) ==
    [size |-> collection_configs[collection].size,
     distance |-> collection_configs[collection].distance,
     indexes |-> index_fields]

----------------------------------------------------------------------------
(* The backend engine, at the interface the service calls it through.     *)
(* `down` is the request failing for a reason of the backend's own        *)
(* (connectivity, timeout).                                               *)

\* a request carrying a vector is rejected whole when the vector's length is not
\* the collection's
backend_accepts(st, collection, vectors) ==
    /\ collection \in DOMAIN st
    /\ \A v \in vectors : VLen(v) = collection_configs[collection].size

\* client.upsert(collection_name, points): all points or none
client_upsert(st, collection, points, down) ==
    IF down \/ ~backend_accepts(st, collection, {p.vector : p \in Range(points)})
    THEN [ok |-> FALSE, store |-> st]
    ELSE LET sent == {points[i].id : i \in DOMAIN points}
         IN  [ok |-> TRUE,
              store |-> [st EXCEPT ![collection] =
                            {q \in @ : q.id \notin sent} \cup Range(points)]]

\* client.retrieve(collection_name, ids=[vector_id], with_payload=True, with_vectors)
client_retrieve(st, collection, vector_id, with_vectors, down) ==
    IF down \/ collection \notin DOMAIN st
    THEN [ok |-> FALSE, points |-> <<>>]
    ELSE LET found == {p \in st[collection] : p.id = vector_id}
         IN  [ok |-> TRUE,
              points |-> IF found = {} THEN <<>>
                         ELSE LET p == CHOOSE q \in found : TRUE
                              IN  <<[id |-> p.id,
                                     payload |-> p.payload,
                                     vector |-> IF with_vectors THEN Some(p.vector) ELSE None]>>]

\* the record of one backend request
UpsertCall(collection, points, down, ok) ==
    [kind |-> "upsert", collection |-> collection, n |-> Len(points),
     ids |-> [i \in DOMAIN points |-> points[i].id], down |-> down, ok |-> ok]

RetrieveCall(collection, vector_id, down, ok) ==
    [kind |-> "retrieve", collection |-> collection, n |-> 1, ids |-> <<vector_id>>,
     down |-> down, ok |-> ok]

----------------------------------------------------------------------------
(* initialize_collections, _create_indexes *)

(* The run so far: b.store and b.schemas are the backend, b.ok is whether  *)
(* the loop is still going, b.calls the requests issued.  get_down and     *)
(* create_down are the collections whose get_collection / create_collection *)
(* request fails for a reason of the backend's own.                        *)

\* the backend with a new, empty collection without indexes
with_new_collection(b, collection, size, distance) ==
    [ok |-> TRUE,
     store |-> [c \in (DOMAIN b.store) \cup {collection} |->
                   IF c = collection THEN {} ELSE b.store[c]],
     schemas |-> [c \in (DOMAIN b.schemas) \cup {collection} |->
                     IF c = collection
                     THEN [size |-> size, distance |-> distance, indexes |-> {}]
                     ELSE b.schemas[c]],
     calls |-> Append(b.calls, [kind |-> "create_collection",
                                collection |-> collection, ok |-> TRUE])]

\* the run after a create_collection request that raised
create_failed(b, collection) ==
    [b EXCEPT !.ok = FALSE,
              !.calls = Append(@, [kind |-> "create_collection",
                                   collection |-> collection, ok |-> FALSE])]

\* a create that replaces a collection that exists, dropping its points
client_recreate_collection(b, collection, size, distance, create_down) ==
    IF collection \in create_down
    THEN create_failed(b, collection)
    ELSE with_new_collection(b, collection, size, distance)

\* client.create_collection(collection_name, vectors_config): the backend makes the
\* collection unless it has one of that name already
client_create_collection(b, collection, size, distance, create_down) ==
    IF collection \in create_down \/ collection \in DOMAIN b.store
    THEN create_failed(b, collection)
    ELSE with_new_collection(b, collection, size, distance)

\* client.get_collection(collection_name) answers: the collection is there and the
\* request went through
get_collection_answers(b, collection, get_down) ==
    collection \in DOMAIN b.store /\ collection \notin get_down

\* the run with the get_collection request recorded
after_get_collection(b, collection, get_down) ==
    [b EXCEPT !.calls = Append(@, [kind |-> "get_collection", collection |-> collection,
                                   ok |-> get_collection_answers(b, collection, get_down)])]

\* the body of the loop: get_collection, and create_collection on any exception
ensure_collection(b, collection, get_down, create_down) ==
    IF ~b.ok THEN b
    ELSE IF get_collection_answers(b, collection, get_down)
    THEN after_get_collection(b, collection, get_down)
    ELSE client_create_collection(after_get_collection(b, collection, get_down),
                                  collection, collection_configs[collection].size,
                                  collection_configs[collection].distance, create_down)

RECURSIVE ensure_collections(_, _, _, _)
ensure_collections(b, names, get_down, create_down) ==
    IF names = <<>> THEN b
    ELSE ensure_collections(ensure_collection(b, Head(names), get_down, create_down),
                            Tail(names), get_down, create_down)

\* _create_indexes: a payload index per field and configured collection; a request
\* that fails is passed over
_create_indexes(b, index_down) ==
    IF index_down
    THEN [b EXCEPT !.calls = Append(@, [kind |-> "create_payload_index", ok |-> FALSE])]
    ELSE [b EXCEPT
            !.schemas = [c \in DOMAIN @ |->
                            IF c \in Configured
                            THEN [@[c] EXCEPT !.indexes = @ \cup index_fields]
                            ELSE @[c]],
            !.calls = Append(@, [kind |-> "create_payload_index", ok |-> TRUE])]

\* the end of the handler: indexes after a loop that went through, the exception
\* re-raised after one that did not
initialized(b, index_down) == IF b.ok THEN _create_indexes(b, index_down) ELSE b

initialize_collections(st, sch, get_down, create_down, index_down) ==
    initialized(ensure_collections([ok |-> TRUE, store |-> st, schemas |-> sch,
                                    calls |-> <<>>],
                                   configured_in_order, get_down, create_down),
                index_down)

----------------------------------------------------------------------------
(* store_vector *)

\* what a handler hands back: outcome, new backend state, counters, requests
Outcome(st, nid, clk, s, e, r, cs) ==
    [status |-> s, err |-> e, result |-> r, store |-> st,
     nextId |-> nid, clock |-> clk, calls |-> cs]

\* a size check that only rejects vectors that are too long
size_mismatch_too_long_only(embeddings, collection) ==
    VLen(embeddings) > collection_configs[collection].size

\* len(embeddings) != expected_size
size_mismatch(embeddings, collection) ==
    VLen(embeddings) # collection_configs[collection].size

\* the merge written the other way round, the caller's keys winning
enhanced_metadata_caller_wins(metadata, now, point_id) ==
    dict_merge([created_at |-> now, vector_id |-> point_id], metadata)

\* {**metadata, "created_at": now, "vector_id": point_id}
enhanced_metadata(metadata, now, point_id) ==
    dict_merge(metadata, [created_at |-> now, vector_id |-> point_id])

store_vector(st, nid, clk, embeddings, metadata, collection, down) ==
    IF VLen(embeddings) = 0
    THEN Outcome(st, nid, clk, "error", "EmptyEmbeddings", None, <<>>)
    ELSE IF collection \notin Configured
    THEN Outcome(st, nid, clk, "error", "UnknownCollection", None, <<>>)
    ELSE IF size_mismatch(embeddings, collection)
    THEN Outcome(st, nid, clk, "error", "DimensionMismatch", None, <<>>)
    ELSE LET point_id == nid
             points == <<[id |-> point_id, vector |-> embeddings,
                          payload |-> enhanced_metadata(metadata, clk, point_id)]>>
             up == client_upsert(st, collection, points, down)
             cs == <<UpsertCall(collection, points, down, up.ok)>>
         IN  IF up.ok
             THEN Outcome(up.store, nid + 1, clk + 1, "ok", "", Some(point_id), cs)
             ELSE Outcome(st, nid + 1, clk + 1, "error", "Backend", None, cs)

----------------------------------------------------------------------------
(* batch_store_vectors, _process_vector_batch *)

(* An item of vectors_data is a dict; the keys it has are its DOMAIN. *)

batch_size == 100

\* passes `"embeddings" not in data or "metadata" not in data`
has_required_keys(data) == "embeddings" \in DOMAIN data /\ "metadata" \in DOMAIN data

\* the positions of a batch whose items reach points.append, in order
prepared_positions(batch) ==
    SelectSeq([i \in DOMAIN batch |-> i], LAMBDA i : has_required_keys(batch[i]))

(* One pass of the loop over a batch: every item draws an id, which is     *)
(* appended to ids before the item is looked at; an item that fails the    *)
(* key test is skipped; the others read the clock and become points.       *)
_process_vector_batch(st, nid, clk, batch, collection, down) ==
    LET ids == [i \in DOMAIN batch |-> nid + i - 1]
        kept == prepared_positions(batch)
        points == [r \in DOMAIN kept |->
                     [id |-> ids[kept[r]],
                      vector |-> batch[kept[r]]["embeddings"],
                      payload |-> enhanced_metadata(batch[kept[r]]["metadata"],
                                                    clk + r - 1, ids[kept[r]])]]
        up == IF points # <<>> THEN client_upsert(st, collection, points, down)
              ELSE [ok |-> TRUE, store |-> st]
    IN  [ok |-> up.ok, ids |-> ids, store |-> up.store,
         nextId |-> nid + Len(batch), clock |-> clk + Len(kept),
         calls |-> IF points # <<>> THEN <<UpsertCall(collection, points, down, up.ok)>>
                   ELSE <<>>]

\* a loop that puts each chunk's ids in front of the ids gathered so far
extend_ids_in_front(all_ids, batch_ids) == batch_ids \o all_ids

\* all_ids.extend(batch_ids)
extend_ids(all_ids, batch_ids) == all_ids \o batch_ids

\* vectors_data[i:i + batch_size], i counted from 0
chunk_at(vectors_data, i) ==
    SubSeq(vectors_data, i + 1, Min(i + batch_size, Len(vectors_data)))

(* The loop `for i in range(0, len(vectors_data), batch_size)`, from offset *)
(* i on.  down_at is the offset of the chunk whose upsert the backend      *)
(* fails for a reason of its own (-1: none).                               *)
RECURSIVE batch_loop(_, _, _, _, _, _, _, _, _)
batch_loop(st, nid, clk, vectors_data, collection, i, all_ids, cs, down_at) ==
    IF i >= Len(vectors_data)
    THEN Outcome(st, nid, clk, "ok", "", all_ids, cs)
    ELSE LET done == _process_vector_batch(st, nid, clk, chunk_at(vectors_data, i),
                                           collection, down_at = i)
         IN  IF done.ok
             THEN batch_loop(done.store, done.nextId, done.clock, vectors_data,
                             collection, i + batch_size,
                             extend_ids(all_ids, done.ids), cs \o done.calls, down_at)
             ELSE Outcome(st, done.nextId, done.clock, "error", "Backend", <<>>,
                          cs \o done.calls)

batch_store_vectors(st, nid, clk, vectors_data, collection, down_at) ==
    IF vectors_data = <<>>
    THEN Outcome(st, nid, clk, "ok", "", <<>>, <<>>)
    ELSE batch_loop(st, nid, clk, vectors_data, collection, 0, <<>>, <<>>, down_at)

----------------------------------------------------------------------------
(* get_vector_by_id *)

get_vector_by_id(st, nid, clk, vector_id, collection, include_vector, down) ==
    LET got == client_retrieve(st, collection, vector_id, include_vector, down)
        cs == <<RetrieveCall(collection, vector_id, down, got.ok)>>
    IN  IF ~got.ok
        THEN Outcome(st, nid, clk, "error", "Backend", None, cs)
        ELSE IF got.points = <<>>
        THEN Outcome(st, nid, clk, "ok", "", None, cs)
        ELSE LET point == got.points[1]
                 base == [id |-> point.id, metadata |-> point.payload]
             IN  Outcome(st, nid, clk, "ok", "",
                         Some(IF include_vector /\ point.vector # None
                                 /\ VLen(TheValue(point.vector)) > 0
                              THEN dict_merge(base, [vector |-> TheValue(point.vector)])
                              ELSE base),
                         cs)

----------------------------------------------------------------------------
(* _build_search_filter *)

(* A filter expression is a dict field -> value, the value tagged by the   *)
(* isinstance test it passes: [kind |-> "list", items |-> <<...>>],        *)
(* [kind |-> "dict", d |-> bound name -> number, accepted |-> BOOLEAN], or *)
(* [kind |-> "scalar", v |-> value].  `accepted` is whether the client     *)
(* library's models.Range takes the dict's keys as keyword arguments: it   *)
(* does when they are all bound names; with any other key it depends on    *)
(* the installed library (a model that forbids extra fields raises, one    *)
(* that ignores them builds the range from the bound names).               *)

range_keys == {"gte", "lte", "gt", "lt"}

\* the condition, if any, that one field of the expression contributes
field_condition(key, value) ==
    IF value.kind = "list"
    THEN {[kind |-> "should", key |-> key,
           conds |-> {[kind |-> "match", key |-> key, value |-> value.items[i]]
                        : i \in DOMAIN value.items}]}
    ELSE IF value.kind = "dict"
    THEN IF (DOMAIN value.d) \cap range_keys # {}
         THEN {[kind |-> "range", key |-> key,
                range |-> [b \in (DOMAIN value.d) \cap range_keys |-> value.d[b]]]}
         ELSE {}
    ELSE {[kind |-> "match", key |-> key, value |-> value.v]}

\* models.Range(**value) raises for one of the fields
filter_raises(filters) ==
    \E k \in DOMAIN filters :
        /\ filters[k].kind = "dict"
        /\ (DOMAIN filters[k].d) \cap range_keys # {}
        /\ ~filters[k].accepted

\* models.Filter(must=conditions) if conditions else None (when nothing raised)
_build_search_filter(filters) ==
    LET conditions == UNION {field_condition(k, filters[k]) : k \in DOMAIN filters}
    IN  IF conditions = {} THEN None ELSE Some([must |-> conditions])

\* a test that takes an empty dict for a filter
filters_given_unless_none(filters) == filters # None

\* `if filters:` : neither None nor an empty dict
filters_given(filters) == filters # None /\ DOMAIN TheValue(filters) # {}

\* search_filter = None; if filters: search_filter = self._build_search_filter(filters)
search_filter_of(filters) ==
    IF filters_given(filters) THEN _build_search_filter(TheValue(filters)) ELSE None

\* `if filters: ... self._build_search_filter(filters)` raises
search_filter_raises(filters) == filters_given(filters) /\ filter_raises(TheValue(filters))

----------------------------------------------------------------------------
(* The backend's evaluation of a predicate on a point's payload *)

range_holds(r, x) ==
    /\ ("gte" \in DOMAIN r => x >= r["gte"])
    /\ ("lte" \in DOMAIN r => x <= r["lte"])
    /\ ("gt" \in DOMAIN r => x > r["gt"])
    /\ ("lt" \in DOMAIN r => x < r["lt"])

\* q in s, on strings
Contains(q, s) ==
    \E i \in 0..(Len(s) - Len(q)) : SubSeq(s, i + 1, i + Len(q)) = q

\* s.startswith(q)
StartsWith(s, q) == Len(q) <= Len(s) /\ SubSeq(s, 1, Len(q)) = q

\* MatchValue, and MatchText on a field without a full-text index (a substring test)
match_holds(c, payload) ==
    /\ c.key \in DOMAIN payload
    /\ IF c.kind = "text" THEN Contains(c.text, payload[c.key])
       ELSE payload[c.key] = c.value

condition_holds(c, payload) ==
    CASE c.kind \in {"match", "text"} -> match_holds(c, payload)
      [] c.kind = "should" -> c.conds = {} \/ \E m \in c.conds : match_holds(m, payload)
      [] c.kind = "range" -> c.key \in DOMAIN payload /\ range_holds(c.range, payload[c.key])

\* a None predicate admits every point
filter_holds(f, payload) ==
    f = None \/ \A c \in TheValue(f).must : condition_holds(c, payload)

----------------------------------------------------------------------------
(* similarity_search *)

\* the points of a set, highest score first (equal scores: lower id first)
RECURSIVE ByScoreDesc(_, _)
ByScoreDesc(points, scores) ==
    IF points = {} THEN <<>>
    ELSE LET top == CHOOSE p \in points :
                        \A q \in points :
                            \/ scores[p.id] > scores[q.id]
                            \/ (scores[p.id] = scores[q.id] /\ p.id <= q.id)
         IN  <<top>> \o ByScoreDesc(points \ {top}, scores)

FirstN(s, n) == SubSeq(s, 1, Min(Len(s), Max(n, 0)))

(* client.search(collection_name, query_vector, limit, score_threshold,    *)
(* query_filter, with_payload, with_vectors=False).  `scores` is the       *)
(* similarity the engine computes between the query and each stored point. *)
client_search(st, collection, query_vector, limit, score_threshold, query_filter, with_payload, scores, down) ==
    IF down \/ ~backend_accepts(st, collection, {query_vector})
    THEN [ok |-> FALSE, hits |-> <<>>]
    ELSE LET eligible == {p \in st[collection] :
                            /\ filter_holds(query_filter, p.payload)
                            /\ scores[p.id] >= score_threshold}
             ranked == FirstN(ByScoreDesc(eligible, scores), limit)
         IN  [ok |-> TRUE,
              hits |-> [i \in DOMAIN ranked |->
                          [id |-> ranked[i].id,
                           score |-> scores[ranked[i].id],
                           payload |-> IF with_payload THEN Some(ranked[i].payload)
                                       ELSE None]]]

SearchCall(collection, query_vector, limit, score_threshold, query_filter, found, down) ==
    [kind |-> "search", collection |-> collection, query_vector |-> query_vector,
     limit |-> limit, score_threshold |-> score_threshold,
     query_filter |-> query_filter, ok |-> found.ok, hits |-> found.hits,
     down |-> down]

\* one formatted result; a payload that is None or an empty dict adds no metadata
format_result(hit, collection, include_metadata) ==
    LET base == [id |-> hit.id, score |-> hit.score, collection |-> collection]
    IN  IF include_metadata /\ hit.payload # None /\ DOMAIN TheValue(hit.payload) # {}
        THEN dict_merge(base, [metadata |-> TheValue(hit.payload)])
        ELSE base

\* a formatting loop that hands the hits back last-first
format_results_reversed(search_results, collection, include_metadata) ==
    [i \in DOMAIN search_results |->
        format_result(search_results[Len(search_results) + 1 - i], collection,
                      include_metadata)]

\* the "Format results" loop
format_results(search_results, collection, include_metadata) ==
    [i \in DOMAIN search_results |->
        format_result(search_results[i], collection, include_metadata)]

default_threshold == 70

similarity_search(st, nid, clk, embeddings, collection, limit, threshold, filters, include_metadata, scores, down) ==
    IF VLen(embeddings) = 0
    THEN Outcome(st, nid, clk, "error", "EmptyEmbeddings", <<>>, <<>>)
    ELSE IF collection \notin Configured
    THEN Outcome(st, nid, clk, "error", "UnknownCollection", <<>>, <<>>)
    ELSE IF search_filter_raises(filters)
    THEN Outcome(st, nid, clk, "error", "ValidationError", <<>>, <<>>)
    ELSE LET search_filter == search_filter_of(filters)
             found == client_search(st, collection, embeddings, limit, threshold,
                                    search_filter, include_metadata, scores, down)
             cs == <<SearchCall(collection, embeddings, limit, threshold,
                                search_filter, found, down)>>
         IN  IF found.ok
             THEN Outcome(st, nid, clk, "ok", "",
                          format_results(found.hits, collection, include_metadata), cs)
             ELSE Outcome(st, nid, clk, "error", "Backend", <<>>, cs)

----------------------------------------------------------------------------
(* _calculate_text_relevance, _text_search *)

lower_char(c) ==
    CASE c = "A" -> "a" [] c = "B" -> "b" [] c = "C" -> "c" [] c = "X" -> "x"
      [] c = "S" -> "s" [] c = "O" -> "o" [] c = "N" -> "n" [] c = "G" -> "g"
      [] OTHER -> c

\* str.lower()
Lower(s) == [i \in DOMAIN s |-> lower_char(s[i])]

\* field_weights, in hundredths, in the dict's order
text_fields == <<"title", "artist", "album", "genre">>

field_weight(field) ==
    CASE field = "title" -> 40
      [] field = "artist" -> 30
      [] field = "album" -> 20
      [] field = "genre" -> 10

\* a field score without the bonus for a prefix match
field_score_no_prefix_bonus(query_lower, metadata, field) ==
    IF Contains(query_lower,
                IF field \in DOMAIN metadata THEN Lower(metadata[field]) ELSE <<>>)
    THEN field_weight(field) ELSE 0

\* what one field adds to the score: its weight when the lower-cased value contains
\* the lower-cased query, and weight * 0.5 more when the value starts with it
field_score(query_lower, metadata, field) ==
    LET field_value == IF field \in DOMAIN metadata THEN Lower(metadata[field]) ELSE <<>>
    IN  IF Contains(query_lower, field_value)
        THEN field_weight(field)
             + (IF StartsWith(field_value, query_lower) THEN field_weight(field) \div 2
                ELSE 0)
        ELSE 0

_calculate_text_relevance(query, metadata) ==
    Min(SumSeq([i \in DOMAIN text_fields |->
                    field_score(Lower(query), metadata, text_fields[i])]),
        100)

scroll_limit == 50

\* client.scroll(collection_name, scroll_filter, limit, with_payload=True): the first
\* `limit` matching points in id order
client_scroll(st, collection, scroll_filter, limit, down) ==
    IF down \/ collection \notin DOMAIN st
    THEN [ok |-> FALSE, points |-> <<>>]
    ELSE LET matching == {p \in st[collection] : filter_holds(scroll_filter, p.payload)}
             ids == {p.id : p \in matching}
             RECURSIVE InIdOrder(_)
             InIdOrder(S) ==
                 IF S = {} THEN <<>>
                 ELSE LET least == CHOOSE x \in S : \A y \in S : x <= y
                      IN  <<CHOOSE p \in matching : p.id = least>> \o InIdOrder(S \ {least})
         IN  [ok |-> TRUE, points |-> FirstN(InIdOrder(ids), limit)]

ScrollCall(collection, scroll_filter, limit, got, down) ==
    [kind |-> "scroll", collection |-> collection, query_filter |-> scroll_filter,
     limit |-> limit, ok |-> got.ok,
     hits |-> [i \in DOMAIN got.points |->
                 [id |-> got.points[i].id, payload |-> Some(got.points[i].payload)]],
     down |-> down]

\* Filter(should=[MatchText on title, artist, album, genre])
text_filter_of(text_query) ==
    [kind |-> "should", key |-> "",
     conds |-> {[kind |-> "text", key |-> text_fields[i], text |-> text_query]
                  : i \in DOMAIN text_fields}]

(* _text_search never raises: whatever fails inside it is logged and the   *)
(* result is [].  Filter(must=[text_filter, existing_filter]) is kept flat: *)
(* the text group next to the existing filter's own conditions, which is   *)
(* the same predicate.  An existing filter that came out None is not a     *)
(* condition, and building the combined filter fails on it; so does an     *)
(* existing filter whose range is not accepted.                            *)
_text_search(st, text_query, filters, down) ==
    LET text_filter == text_filter_of(text_query)
        existing_filter == IF filters_given(filters)
                           THEN _build_search_filter(TheValue(filters)) ELSE None
        buildable == \/ ~filters_given(filters)
                     \/ (~filter_raises(TheValue(filters)) /\ existing_filter # None)
        combined_filter ==
            IF filters_given(filters)
            THEN Some([must |-> {text_filter} \cup TheValue(existing_filter).must])
            ELSE Some([must |-> {text_filter}])
        got == client_scroll(st, music_collection, combined_filter, scroll_limit, down)
    IN  IF ~buildable THEN [results |-> <<>>, calls |-> <<>>]
        ELSE [results |-> IF got.ok
                          THEN [i \in DOMAIN got.points |->
                                  [id |-> got.points[i].id,
                                   score |-> _calculate_text_relevance(
                                                 text_query, got.points[i].payload),
                                   metadata |-> got.points[i].payload]]
                          ELSE <<>>,
              calls |-> <<ScrollCall(music_collection, combined_filter, scroll_limit,
                                     got, down)>>]

----------------------------------------------------------------------------
(* count_vectors *)

\* client.count(collection_name, count_filter): the points the predicate admits
client_count(st, collection, count_filter, down) ==
    IF down \/ collection \notin DOMAIN st
    THEN [ok |-> FALSE, count |-> 0]
    ELSE [ok |-> TRUE,
          count |-> Cardinality({p \in st[collection] :
                                   filter_holds(count_filter, p.payload)})]

\* client.get_collection(collection).vectors_count: one vector per point
client_vectors_count(st, collection, down) ==
    IF down \/ collection \notin DOMAIN st
    THEN [ok |-> FALSE, count |-> 0]
    ELSE [ok |-> TRUE, count |-> Cardinality(st[collection])]

\* what count_vectors returns for the backend's answer, or the exception re-raised
count_result(st, nid, clk, got, cs) ==
    IF got.ok THEN Outcome(st, nid, clk, "ok", "", got.count, cs)
    ELSE Outcome(st, nid, clk, "error", "Backend", 0, cs)

\* the `if filters:` branch: client.count with the built filter
count_with_filter(st, nid, clk, collection, count_filter, down) ==
    count_result(st, nid, clk, client_count(st, collection, count_filter, down),
                 <<[kind |-> "count", collection |-> collection,
                    query_filter |-> count_filter, down |-> down]>>)

\* the else branch: the collection's vectors_count
count_all(st, nid, clk, collection, down) ==
    count_result(st, nid, clk, client_vectors_count(st, collection, down),
                 <<[kind |-> "get_collection", collection |-> collection,
                    down |-> down]>>)

count_vectors(st, nid, clk, collection, filters, down) ==
    IF search_filter_raises(filters)
    THEN Outcome(st, nid, clk, "error", "ValidationError", 0, <<>>)
    ELSE IF filters_given(filters)
    THEN count_with_filter(st, nid, clk, collection,
                           _build_search_filter(TheValue(filters)), down)
    ELSE count_all(st, nid, clk, collection, down)

----------------------------------------------------------------------------
(* store_multimodal_vector *)

\* {**metadata, "modality": "image_audio", "image_dim": ..., "audio_dim": ...}
multimodal_metadata(metadata, image_embeddings, audio_embeddings) ==
    dict_merge(metadata, [modality |-> "image_audio",
                          image_dim |-> VLen(image_embeddings),
                          audio_dim |-> VLen(audio_embeddings)])

\* image_embeddings + audio_embeddings
combined_embeddings(image_embeddings, audio_embeddings) ==
    VConcat(image_embeddings, audio_embeddings)

\* store_vector on the joined list in the hybrid collection; its exception is
\* re-raised under another message
store_multimodal_vector(st, nid, clk, image_embeddings, audio_embeddings, metadata, down) ==
    store_vector(st, nid, clk,
                 combined_embeddings(image_embeddings, audio_embeddings),
                 multimodal_metadata(metadata, image_embeddings, audio_embeddings),
                 hybrid_collection, down)

----------------------------------------------------------------------------
(* delete_vector, delete_vectors_by_filter, update_vector_metadata *)

\* client.delete(collection_name, points_selector): the points of the collection
\* whose id the selector picks are removed; an id that picks no point is passed
\* over, and the request succeeds all the same
client_delete(st, collection, picked, down) ==
    IF down \/ collection \notin DOMAIN st
    THEN [ok |-> FALSE, store |-> st]
    ELSE [ok |-> TRUE,
          store |-> [st EXCEPT ![collection] = {p \in @ : p.id \notin picked}]]

\* the ids models.FilterSelector(filter) picks in a collection
filter_selected(st, collection, search_filter) ==
    IF collection \in DOMAIN st
    THEN {p.id : p \in {q \in st[collection] : filter_holds(search_filter, q.payload)}}
    ELSE {}

\* client.set_payload(collection_name, payload, points=[vector_id]): the payload's
\* keys are written over the point's; the backend refuses the request when there
\* is no point of that id
client_set_payload(st, collection, payload, vector_id, down) ==
    IF down \/ collection \notin DOMAIN st
    THEN [ok |-> FALSE, store |-> st]
    ELSE IF vector_id \notin {p.id : p \in st[collection]}
    THEN [ok |-> FALSE, store |-> st]
    ELSE [ok |-> TRUE,
          store |-> [st EXCEPT ![collection] =
                        {IF p.id = vector_id
                         THEN [p EXCEPT !.payload = dict_merge(@, payload)]
                         ELSE p : p \in @}]]

DeleteCall(collection, picked, down, ok) ==
    [kind |-> "delete", collection |-> collection, picked |-> picked,
     down |-> down, ok |-> ok]

SetPayloadCall(collection, vector_id, payload, down, ok) ==
    [kind |-> "set_payload", collection |-> collection, ids |-> <<vector_id>>,
     payload |-> payload, down |-> down, ok |-> ok]

\* client.delete by PointIdsList([vector_id]); return True
delete_vector(st, nid, clk, vector_id, collection, down) ==
    LET got == client_delete(st, collection, {vector_id}, down)
        cs == <<DeleteCall(collection, {vector_id}, down, got.ok)>>
    IN  IF got.ok
        THEN Outcome(got.store, nid, clk, "ok", "", TRUE, cs)
        ELSE Outcome(st, nid, clk, "error", "Backend", None, cs)

\* the delete request of delete_vectors_by_filter and what is made of its answer:
\* getattr(result, 'operation_id', 0), the number the backend gave the operation
delete_selected(st, nid, clk, collection, picked, operation_id, down) ==
    LET got == client_delete(st, collection, picked, down)
        cs == <<DeleteCall(collection, picked, down, got.ok)>>
    IN  IF got.ok
        THEN Outcome(got.store, nid, clk, "ok", "", operation_id, cs)
        ELSE Outcome(st, nid, clk, "error", "Backend", None, cs)

\* _build_search_filter, then client.delete by FilterSelector(filter=search_filter);
\* FilterSelector takes no None for its filter, so an expression that builds no
\* condition raises like one whose range is refused
delete_vectors_by_filter(st, nid, clk, collection, filters, operation_id, down) ==
    IF filter_raises(filters) \/ _build_search_filter(filters) = None
    THEN Outcome(st, nid, clk, "error", "ValidationError", None, <<>>)
    ELSE delete_selected(st, nid, clk, collection,
                         filter_selected(st, collection, _build_search_filter(filters)),
                         operation_id, down)

\* {**metadata, "updated_at": datetime.now().isoformat()}
updated_metadata(metadata, now) ==
    dict_merge(metadata, [updated_at |-> now])

\* set_payload with the stamped metadata on the one point; return True
update_vector_metadata(st, nid, clk, vector_id, collection, metadata, down) ==
    LET payload == updated_metadata(metadata, clk)
        got == client_set_payload(st, collection, payload, vector_id, down)
        cs == <<SetPayloadCall(collection, vector_id, payload, down, got.ok)>>
    IN  IF got.ok
        THEN Outcome(got.store, nid, clk + 1, "ok", "", TRUE, cs)
        ELSE Outcome(st, nid, clk + 1, "error", "Backend", None, cs)

----------------------------------------------------------------------------
(* _merge_results *)

(* all_results, a dict in insertion order: keys is the order in which the  *)
(* keys were first inserted, entry maps each key to its accumulator.       *)
EmptyResults == [keys |-> <<>>, entry |-> EmptyDict]

\* result.get("metadata", {})
metadata_of(res) == IF "metadata" \in DOMAIN res THEN res.metadata ELSE EmptyDict

\* a key that is always the raw point id
track_id_of_raw_id(res) == res.id

\* result.get("metadata", {}).get("track_id", result_id)
track_id_of(res) ==
    IF "track_id" \in DOMAIN metadata_of(res) THEN metadata_of(res)["track_id"] ELSE res.id

\* a score added to the total as it is, the weight forgotten
weighted_score_unweighted(score, weight) == score

\* result["score"] * weight, in thousandths
weighted_score(score, weight) == score * weight

\* `if not result_id`: None, "" or 0
falsy_id(result_id) == result_id = 0

\* a loop body that sets the total to the last weighted score instead of adding it
merge_result_last_score_wins(all_results, res, weight, search_type) ==
    IF falsy_id(res.id) THEN all_results
    ELSE LET track_id == track_id_of(res)
             known == track_id \in DOMAIN all_results.entry
             before == IF known THEN all_results.entry[track_id]
                       ELSE [scores |-> EmptyDict, combined_score |-> 0,
                             metadata |-> metadata_of(res)]
             after ==
                 [scores |-> dict_merge(before.scores, (search_type :> res.score)),
                  combined_score |-> weighted_score(res.score, weight),
                  metadata |-> before.metadata]
         IN  [keys |-> IF known THEN all_results.keys
                       ELSE Append(all_results.keys, track_id),
              entry |-> dict_merge(all_results.entry, (track_id :> after))]

\* the body of the loop, for one result
merge_result(all_results, res, weight, search_type) ==
    IF falsy_id(res.id) THEN all_results
    ELSE LET track_id == track_id_of(res)
             known == track_id \in DOMAIN all_results.entry
             before == IF known THEN all_results.entry[track_id]
                       ELSE [scores |-> EmptyDict, combined_score |-> 0,
                             metadata |-> metadata_of(res)]
             after ==
                 [scores |-> dict_merge(before.scores, (search_type :> res.score)),
                  combined_score |-> before.combined_score
                                       + weighted_score(res.score, weight),
                  metadata |-> IF Cardinality(DOMAIN metadata_of(res))
                                    > Cardinality(DOMAIN before.metadata)
                               THEN metadata_of(res) ELSE before.metadata]
         IN  [keys |-> IF known THEN all_results.keys
                       ELSE Append(all_results.keys, track_id),
              entry |-> dict_merge(all_results.entry, (track_id :> after))]

RECURSIVE _merge_results(_, _, _, _)
_merge_results(all_results, results, weight, search_type) ==
    IF results = <<>> THEN all_results
    ELSE _merge_results(merge_result(all_results, Head(results), weight, search_type),
                        Tail(results), weight, search_type)

----------------------------------------------------------------------------
(* hybrid_search *)

default_image_weight == 4

default_audio_weight == 4

default_text_weight == 2

hybrid_weight == 3

\* {"image": 0.4, "audio": 0.4, "text": 0.2}, in tenths
default_weights ==
    [image |-> default_image_weight, audio |-> default_audio_weight,
     text |-> default_text_weight]

\* a test that takes an empty list for a supplied input
supplied_unless_none(embeddings) == embeddings # None

\* `if image_embeddings:` : neither None nor an empty list
supplied(embeddings) == embeddings # None /\ VLen(TheValue(embeddings)) > 0

\* `if text_query:` : neither None nor ""
text_supplied(text_query) == text_query # None /\ Len(TheValue(text_query)) > 0

\* a list handed back as it is
sorted_by_score_unsorted(items) == items

\* sorted(..., key=score, reverse=True): highest first, equal scores in their order
RECURSIVE sorted_by_score(_)
sorted_by_score(items) ==
    IF items = <<>> THEN <<>>
    ELSE LET first == CHOOSE i \in DOMAIN items :
                          /\ \A j \in DOMAIN items : items[i].score >= items[j].score
                          /\ \A j \in 1..(i - 1) : items[j].score < items[i].score
         IN  <<items[first]>>
             \o sorted_by_score(SubSeq(items, 1, first - 1)
                                \o SubSeq(items, first + 1, Len(items)))

\* the list comprehension over all_results.items()
result_items(all_results) ==
    [i \in DOMAIN all_results.keys |->
        LET data == all_results.entry[all_results.keys[i]]
        IN  [id |-> all_results.keys[i],
             score |-> data.combined_score,
             individual_scores |-> data.scores,
             search_types |-> DOMAIN data.scores,
             metadata |-> data.metadata]]

(* The handler runs its searches one after the other; run is what it has   *)
(* so far: whether it is still going, the error that stopped it, the       *)
(* accumulator and the requests issued.                                    *)
StartRun == [ok |-> TRUE, err |-> "", all_results |-> EmptyResults, calls |-> <<>>]

\* `weights` after the default has been filled in
weights_or_default(weights_arg) ==
    IF weights_arg = None THEN default_weights ELSE TheValue(weights_arg)

\* a merge that gives up when the search found nothing
merge_found_empty_fails(run, found, weights, key, fixed_weight, search_type) ==
    [run EXCEPT !.ok = found.result # <<>>, !.err = "NoCandidates",
                !.calls = @ \o found.calls]

\* what a vector search's outcome does to the run: an exception of the search or of
\* weights[key] ends it, results are merged with weights[key] (or the fixed weight)
merge_found(run, found, weights, key, fixed_weight, search_type) ==
    LET cs == run.calls \o found.calls
    IN  IF found.status # "ok"
        THEN [run EXCEPT !.ok = FALSE, !.err = found.err, !.calls = cs]
        ELSE IF key # "" /\ key \notin DOMAIN weights
        THEN [run EXCEPT !.ok = FALSE, !.err = "KeyError", !.calls = cs]
        ELSE [run EXCEPT
                !.calls = cs,
                !.all_results =
                    _merge_results(@, found.result,
                                   IF key = "" THEN fixed_weight ELSE weights[key],
                                   search_type)]

\* similarity_search on one collection, then _merge_results with weights[key]
vector_step(run, st, embeddings, collection, limit, filters, weights, key, fixed_weight, search_type, scores, down) ==
    IF ~run.ok THEN run
    ELSE merge_found(run,
                     similarity_search(st, 0, 0, embeddings, collection, limit,
                                       default_threshold, filters, TRUE, scores, down),
                     weights, key, fixed_weight, search_type)

\* what the text search's results do to the run, merged with weights.get("text", 0.2)
merge_text(run, found, weights) ==
    [run EXCEPT
       !.calls = @ \o found.calls,
       !.all_results =
           _merge_results(@, found.results,
                          IF "text" \in DOMAIN weights THEN weights["text"]
                          ELSE default_text_weight,
                          "text")]

\* _text_search, then _merge_results
text_step(run, st, text_query, filters, weights, down) ==
    IF ~run.ok THEN run
    ELSE merge_text(run, _text_search(st, text_query, filters, down), weights)

\* `if image_embeddings:` : search the image collection for limit * 2
image_part(run, st, image_embeddings, limit, filters, weights, scores, outage) ==
    IF supplied(image_embeddings)
    THEN vector_step(run, st, TheValue(image_embeddings), image_collection, limit * 2,
                     filters, weights, "image", 0, "image", scores, outage = "image")
    ELSE run

\* an audio search that leaves the caller's filters out
audio_part_unfiltered(run, st, audio_embeddings, limit, filters, weights, scores, outage) ==
    IF supplied(audio_embeddings)
    THEN vector_step(run, st, TheValue(audio_embeddings), audio_collection, limit * 2,
                     None, weights, "audio", 0, "audio", scores, outage = "audio")
    ELSE run

\* `if audio_embeddings:` : search the audio collection for limit * 2
audio_part(run, st, audio_embeddings, limit, filters, weights, scores, outage) ==
    IF supplied(audio_embeddings)
    THEN vector_step(run, st, TheValue(audio_embeddings), audio_collection, limit * 2,
                     filters, weights, "audio", 0, "audio", scores, outage = "audio")
    ELSE run

\* a joint search merged with the caller's image weight
hybrid_part_caller_weight(run, st, image_embeddings, audio_embeddings, limit, filters, weights, scores, outage) ==
    IF supplied(image_embeddings) /\ supplied(audio_embeddings)
    THEN vector_step(run, st,
                     VConcat(TheValue(image_embeddings), TheValue(audio_embeddings)),
                     hybrid_collection, limit, filters, weights, "image", 0,
                     "hybrid", scores, outage = "hybrid")
    ELSE run

\* `if image_embeddings and audio_embeddings:` : search the hybrid collection with
\* the concatenated vector, for limit, merged with the fixed weight
hybrid_part(run, st, image_embeddings, audio_embeddings, limit, filters, weights, scores, outage) ==
    IF supplied(image_embeddings) /\ supplied(audio_embeddings)
    THEN vector_step(run, st,
                     VConcat(TheValue(image_embeddings), TheValue(audio_embeddings)),
                     hybrid_collection, limit, filters, weights, "", hybrid_weight,
                     "hybrid", scores, outage = "hybrid")
    ELSE run

\* `if text_query:` : the text search
text_part(run, st, text_query, filters, weights, outage) ==
    IF text_supplied(text_query)
    THEN text_step(run, st, TheValue(text_query), filters, weights, outage = "text")
    ELSE run

\* sort, cut to limit and return; or the exception that ended the run
final_results(run, st, nid, clk, limit) ==
    IF run.ok
    THEN Outcome(st, nid, clk, "ok", "",
                 FirstN(sorted_by_score(result_items(run.all_results)), limit),
                 run.calls)
    ELSE Outcome(st, nid, clk, "error", run.err, <<>>, run.calls)

(* `outage` names the search whose backend request fails for a reason of   *)
(* the backend's own: "image", "audio", "hybrid", "text", or "none".       *)
hybrid_search(st, nid, clk, image_embeddings, audio_embeddings, text_query, weights_arg, limit, filters, scores, outage) ==
    final_results(
        text_part(
            hybrid_part(
                audio_part(
                    image_part(StartRun, st, image_embeddings, limit, filters,
                               weights_or_default(weights_arg), scores, outage),
                    st, audio_embeddings, limit, filters,
                    weights_or_default(weights_arg), scores, outage),
                st, image_embeddings, audio_embeddings, limit, filters,
                weights_or_default(weights_arg), scores, outage),
            st, text_query, filters, weights_or_default(weights_arg), outage),
        st, nid, clk, limit)

(* hybrid_search statement by statement.  Each of its four parts is an    *)
(* `if`, an awaited search and a call of _merge_results; pc is the part    *)
(* the call is at, stage whether the part's search is still to be awaited  *)
(* or its results are to be merged, found what the awaited search handed   *)
(* back (None before that), awaited the parts whose search has come back.  *)

\* no hybrid_search call is in progress
Idle == [pc |-> "idle"]

\* a call that has just filled in its weights and emptied all_results
Entered(scores, outage) ==
    [pc |-> "image", stage |-> "search", run |-> StartRun, found |-> None,
     awaited |-> {}, scores |-> scores, outage |-> outage]

\* the statement after a part
next_part(pc) ==
    CASE pc = "image" -> "audio"
      [] pc = "audio" -> "hybrid"
      [] pc = "hybrid" -> "text"
      [] pc = "text" -> "return"

\* the `if` of a part
part_applies(pc, a) ==
    CASE pc = "image" -> supplied(a.image_embeddings)
      [] pc = "audio" -> supplied(a.audio_embeddings)
      [] pc = "hybrid" -> supplied(a.image_embeddings) /\ supplied(a.audio_embeddings)
      [] pc = "text" -> text_supplied(a.text_query)

\* the awaited search of a part
part_search(pc, st, a, scores, outage) ==
    CASE pc = "image" ->
             similarity_search(st, 0, 0, TheValue(a.image_embeddings), image_collection,
                               a.limit * 2, default_threshold, a.filters, TRUE, scores,
                               outage = "image")
      [] pc = "audio" ->
             similarity_search(st, 0, 0, TheValue(a.audio_embeddings), audio_collection,
                               a.limit * 2, default_threshold, a.filters, TRUE, scores,
                               outage = "audio")
      [] pc = "hybrid" ->
             similarity_search(st, 0, 0,
                               VConcat(TheValue(a.image_embeddings),
                                       TheValue(a.audio_embeddings)),
                               hybrid_collection, a.limit, default_threshold, a.filters,
                               TRUE, scores, outage = "hybrid")
      [] pc = "text" ->
             _text_search(st, TheValue(a.text_query), a.filters, outage = "text")

\* the _merge_results call of a part (or the exception the awaited search raised)
part_merge(pc, run, found, weights) ==
    CASE pc = "image" -> merge_found(run, found, weights, "image", 0, "image")
      [] pc = "audio" -> merge_found(run, found, weights, "audio", 0, "audio")
      [] pc = "hybrid" -> merge_found(run, found, weights, "", hybrid_weight, "hybrid")
      [] pc = "text" -> merge_text(run, found, weights)

\* the call after a part's merge: on to the next part, or to the except clause
after_merge(f, run) ==
    [f EXCEPT !.run = run, !.found = None, !.stage = "search",
              !.pc = IF run.ok THEN next_part(@) ELSE "return"]

----------------------------------------------------------------------------
(* Inputs explored *)

MaxWrites == 2

\* characters are one-character strings
Str_abc == <<"a", "b", "c">>

\* caller metadata; a caller's own created_at / vector_id is 0, which is neither a
\* clock reading nor a generated id (both start at 1)
TestMetadata ==
    { EmptyDict,
      [title |-> Str_abc],
      [created_at |-> 0, vector_id |-> 0, title |-> Str_abc] }

TestVectors == { <<>>, Const(127, 1), Const(128, 1), Const(512, 1) }

TestCollections == {music_collection, image_collection, "unknown_vectors"}

TestLimits == {1, 2}

TestThresholds == {0, default_threshold}

TestScores == {50, 90}

TestFilters ==
    { None, Some(EmptyDict), Some([title |-> [kind |-> "scalar", v |-> Str_abc]]) }

\* the ids the backend holds in a collection ({} when it has no such collection)
StoredIds(st, collection) ==
    IF collection \in DOMAIN st THEN {p.id : p \in st[collection]} ELSE {}

----------------------------------------------------------------------------
(* The state machine *)

\* the backend after the service has started on an empty engine: every configured
\* collection exists, empty, with the configured schema and indexes
Init ==
    /\ store = [c \in Configured |-> {}]
    /\ schemas = [c \in Configured |-> configured_schema(c)]
    /\ nextId = 1
    /\ clock = 1
    /\ writes = [single |-> 0, batch |-> 0]
    /\ op = "init"
    /\ args = EmptyDict
    /\ status = "ok"
    /\ err = ""
    /\ result = None
    /\ calls = <<>>
    /\ fusion = Idle

ReadOnly ==
    {"get_vector_by_id", "similarity_search", "hybrid_search", "count_vectors",
     "_calculate_text_relevance", "_merge_results"}

(* A read-only call changes nothing of store, nextId, clock: whatever can  *)
(* follow it can follow the state it was made in.  The exploration         *)
(* therefore makes every call from a state a write (or Init) left.         *)
CallerReady == op \notin ReadOnly

\* a handler's outcome becomes the next state
Apply(name, a, out) ==
    /\ op' = name
    /\ args' = a
    /\ status' = out.status
    /\ err' = out.err
    /\ result' = out.result
    /\ calls' = out.calls
    /\ store' = out.store
    /\ nextId' = out.nextId
    /\ clock' = out.clock
    /\ UNCHANGED <<schemas, fusion>>

StoreVectorStep(Vs, Ms, Cs, Downs, max) ==
    /\ CallerReady
    /\ writes.single < max
    /\ \E embeddings \in Vs, metadata \in Ms, collection \in Cs, down \in Downs :
          Apply("store_vector",
                [embeddings |-> embeddings, metadata |-> metadata,
                 collection |-> collection],
                store_vector(store, nextId, clock, embeddings, metadata, collection, down))
    /\ writes' = [writes EXCEPT !.single = @ + 1]

DoStoreVector ==
    StoreVectorStep(TestVectors, TestMetadata, TestCollections, BOOLEAN, MaxWrites)

DoGetVectorById ==
    /\ CallerReady
    /\ \E vector_id \in 1..nextId, collection \in TestCollections,
          include_vector \in BOOLEAN, down \in BOOLEAN :
          Apply("get_vector_by_id",
                [vector_id |-> vector_id, collection |-> collection,
                 include_vector |-> include_vector],
                get_vector_by_id(store, nextId, clock, vector_id, collection,
                                 include_vector, down))
    /\ UNCHANGED writes

Next ==
    \/ DoStoreVector
    \/ DoGetVectorById

Spec == Init /\ [][Next]_vars

----------------------------------------------------------------------------
(* Searching a catalogue: points are stored in the music collection, then  *)
(* searched.                                                               *)

DoStoreTrack ==
    StoreVectorStep({Const(128, 1)}, {EmptyDict, [title |-> Str_abc]},
                    {music_collection}, {FALSE}, MaxWrites)

DoSimilaritySearch ==
    /\ CallerReady
    /\ \E embeddings \in {<<>>, Const(127, 1), Const(128, 1)},
          collection \in {music_collection, "unknown_vectors"},
          limit \in TestLimits, threshold \in TestThresholds,
          filters \in TestFilters, include_metadata \in BOOLEAN, down \in BOOLEAN :
          \E scores \in [StoredIds(store, collection) -> TestScores] :
             Apply("similarity_search",
                   [embeddings |-> embeddings, collection |-> collection,
                    limit |-> limit, threshold |-> threshold, filters |-> filters,
                    include_metadata |-> include_metadata],
                   similarity_search(store, nextId, clock, embeddings, collection, limit,
                                     threshold, filters, include_metadata, scores, down))
    /\ UNCHANGED writes

NextSearch ==
    \/ DoStoreTrack
    \/ DoSimilaritySearch

SpecSearch == Init /\ [][NextSearch]_vars

----------------------------------------------------------------------------
(* Batch ingestion into the music collection, next to single stores.      *)

MaxBatches == 1

\* item i of a batch carries its position as metadata
GoodItem(i) == [embeddings |-> Const(128, 1), metadata |-> [track_no |-> i]]

WrongSizeItem(i) == [embeddings |-> Const(127, 1), metadata |-> [track_no |-> i]]

NoEmbeddingsItem(i) == [metadata |-> [track_no |-> i]]

ItemOfKind(kind, i) ==
    CASE kind = "good" -> GoodItem(i)
      [] kind = "wrong_size" -> WrongSizeItem(i)
      [] kind = "no_embeddings" -> NoEmbeddingsItem(i)

ItemKinds == {"good", "wrong_size", "no_embeddings"}

\* the positions whose item kind varies; every other item is good
VariedPositions == {2, 201}

TestBatchLengths == {0, 3, 201}

TestBatch(n, kinds) ==
    [i \in 1..n |-> IF i \in VariedPositions THEN ItemOfKind(kinds[i], i) ELSE GoodItem(i)]

TestBatches ==
    {TestBatch(n, kinds) : n \in TestBatchLengths, kinds \in [VariedPositions -> ItemKinds]}

DoBatchStoreVectors ==
    /\ CallerReady
    /\ writes.batch < MaxBatches
    /\ \E vectors_data \in TestBatches,
          collection \in {music_collection, "unknown_vectors"},
          down_at \in {-1, batch_size} :
          Apply("batch_store_vectors",
                [vectors_data |-> vectors_data, collection |-> collection],
                batch_store_vectors(store, nextId, clock, vectors_data, collection,
                                    down_at))
    /\ writes' = [writes EXCEPT !.batch = @ + 1]

\* a single store next to the batches
DoStoreOne ==
    StoreVectorStep({Const(128, 1)}, {EmptyDict}, {music_collection}, {FALSE}, MaxWrites)

NextBatch ==
    \/ DoStoreOne
    \/ DoBatchStoreVectors

SpecBatch == Init /\ [][NextBatch]_vars

----------------------------------------------------------------------------
(* Fusion over a catalogue whose tracks have points in the image, audio,   *)
(* hybrid and music collections.                                           *)

MaxCatalog == 2

Str_Xabc == <<"X", "a", "b", "c">>

\* a track with an entity key, and one without
CatalogMetadata == { [track_id |-> 901, title |-> Str_abc], [title |-> Str_Xabc] }

DoStoreCatalog ==
    \E collection \in Configured :
        StoreVectorStep({Const(collection_configs[collection].size, 1)}, CatalogMetadata,
                        {collection}, {FALSE}, MaxCatalog)

TestImages == { None, Some(<<>>), Some(Const(512, 1)) }

\* the audio vector differs from the image vector in its entries, so that the order
\* of a concatenation shows
TestAudios == { None, Some(Const(128, 2)) }

TestTexts == { None, Some(<<>>), Some(Str_abc) }

TestWeights == { None, Some([image |-> 5, audio |-> 3, text |-> 1]) }

TestFusionFilters == { None, Some([track_id |-> [kind |-> "scalar", v |-> 901]]) }

TestFusionScores == {60, 80, 90}

\* the searches a call makes for its inputs
SearchesOf(image_embeddings, audio_embeddings, text_query) ==
    (IF supplied(image_embeddings) THEN {"image"} ELSE {})
    \cup (IF supplied(audio_embeddings) THEN {"audio"} ELSE {})
    \cup (IF supplied(image_embeddings) /\ supplied(audio_embeddings)
          THEN {"hybrid"} ELSE {})
    \cup (IF text_supplied(text_query) THEN {"text"} ELSE {})

CollectionOf(search_type) ==
    CASE search_type = "image" -> image_collection
      [] search_type = "audio" -> audio_collection
      [] search_type = "hybrid" -> hybrid_collection
      [] search_type = "text" -> music_collection

\* the points a call's vector searches can score
ScoredIds(st, searches) ==
    UNION {StoredIds(st, CollectionOf(t)) : t \in searches \ {"text"}}

\* the similarities explored: every assignment of the test scores, and a single one
\* when a vector search is going to fail, which discards the scores anyway
FusionScores(st, searches, outage) ==
    IF outage \in {"image", "audio", "hybrid"}
    THEN {[id \in ScoredIds(st, searches) |-> 90]}
    ELSE [ScoredIds(st, searches) -> TestFusionScores]

DoHybridSearch ==
    /\ CallerReady
    /\ \E image_embeddings \in TestImages, audio_embeddings \in TestAudios,
          text_query \in TestTexts, weights \in TestWeights,
          filters \in TestFusionFilters, limit \in {0, 1, 2} :
          LET searches == SearchesOf(image_embeddings, audio_embeddings, text_query)
          IN  /\ limit = 0 => searches = {}
              /\ \E outage \in {"none"} \cup searches :
                 \E scores \in FusionScores(store, searches, outage) :
                    Apply("hybrid_search",
                          [image_embeddings |-> image_embeddings,
                           audio_embeddings |-> audio_embeddings,
                           text_query |-> text_query, weights |-> weights,
                           limit |-> limit, filters |-> filters],
                          hybrid_search(store, nextId, clock, image_embeddings,
                                        audio_embeddings, text_query, weights, limit,
                                        filters, scores, outage))
    /\ UNCHANGED writes

NextFusion ==
    \/ DoStoreCatalog
    \/ DoHybridSearch

SpecFusion == Init /\ [][NextFusion]_vars

----------------------------------------------------------------------------
(* Filtering: tagged tracks are stored in the music collection, then       *)
(* searched, counted and scanned with filter expressions over their         *)
(* fields.                                                                  *)

MaxTagged == 2

\* tracks with a tempo class and a year, and one without a tempo class
TaggedMetadata ==
    { [title |-> Str_abc, tempo |-> 1, year |-> 1],
      [title |-> Str_abc, tempo |-> 2, year |-> 3],
      [title |-> Str_Xabc, year |-> 2] }

DoStoreTagged ==
    StoreVectorStep({Const(128, 1)}, TaggedMetadata, {music_collection}, {FALSE},
                    MaxTagged)

Scalar(v) == [kind |-> "scalar", v |-> v]

ListOf(items) == [kind |-> "list", items |-> items]

RangeOf(d, accepted) == [kind |-> "dict", d |-> d, accepted |-> accepted]

\* what an expression can say about tempo: nothing, one value, a set of values
TempoValues == { Scalar(1), ListOf(<<>>), ListOf(<<1, 2>>), ListOf(<<2>>) }

\* range objects over year made of bound names only
KnownRanges ==
    { [gte |-> 2], [lt |-> 3], ("gt" :> 1) @@ ("lte" :> 2), ("gte" :> 1) @@ ("lt" :> 2) }

\* range objects with a key that is no bound name: alone, and next to bounds
UnknownKeyRanges == { [boost |-> 2], ("gte" :> 2) @@ ("boost" :> 2) }

\* what an expression can say about year
YearValues ==
    {RangeOf(d, TRUE) : d \in KnownRanges}
    \cup {RangeOf(d, accepted) : d \in UnknownKeyRanges, accepted \in BOOLEAN}
    \cup {Scalar(3)}

TestFilterExpressions ==
    {EmptyDict}
    \cup {[tempo |-> g] : g \in TempoValues}
    \cup {[year |-> y] : y \in YearValues}
    \cup {[tempo |-> g, year |-> y] : g \in TempoValues, y \in YearValues}

TestOptionalFilters == {None} \cup {Some(f) : f \in TestFilterExpressions}

\* every stored point is as similar as any other
EvenScores(st, collection) == [id \in StoredIds(st, collection) |-> 90]

\* a search wide enough to return every eligible point
DoFilteredSearch ==
    /\ CallerReady
    /\ \E filters \in TestOptionalFilters :
          Apply("similarity_search",
                [embeddings |-> Const(128, 1), collection |-> music_collection,
                 limit |-> MaxTagged + 1, threshold |-> 0, filters |-> filters,
                 include_metadata |-> TRUE],
                similarity_search(store, nextId, clock, Const(128, 1), music_collection,
                                  MaxTagged + 1, 0, filters, TRUE,
                                  EvenScores(store, music_collection), FALSE))
    /\ UNCHANGED writes

DoCountVectors ==
    /\ CallerReady
    /\ \E filters \in TestOptionalFilters, collection \in {music_collection, "unknown_vectors"}, down \in BOOLEAN :
          Apply("count_vectors",
                [collection |-> collection, filters |-> filters],
                count_vectors(store, nextId, clock, collection, filters, down))
    /\ UNCHANGED writes

\* a hybrid_search by phrase alone: the text scan with the caller's filters
DoTextScan ==
    /\ CallerReady
    /\ \E filters \in TestOptionalFilters, text_query \in {Str_abc, Str_Xabc} :
          Apply("hybrid_search",
                [image_embeddings |-> None, audio_embeddings |-> None,
                 text_query |-> Some(text_query), weights |-> None,
                 limit |-> MaxTagged + 1, filters |-> filters],
                hybrid_search(store, nextId, clock, None, None, Some(text_query), None,
                              MaxTagged + 1, filters, EmptyDict, "none"))
    /\ UNCHANGED writes

NextFilter ==
    \/ DoStoreTagged
    \/ DoFilteredSearch
    \/ DoCountVectors
    \/ DoTextScan

SpecFilter == Init /\ [][NextFilter]_vars

----------------------------------------------------------------------------
(* Text relevance: the scorer applied to phrases and metadata maps.        *)

Str_ABC == <<"A", "B", "C">>

Str_xyz == <<"x", "y", "z">>

Str_abc_song == <<"a", "b", "c", " ", "s", "o", "n", "g">>

Str_My_ABC_Song == <<"M", "y", " ", "A", "B", "C", " ", "S", "o", "n", "g">>

TestPhrases == { <<>>, Str_abc, Str_ABC, Str_xyz, Str_abc_song }

TestFieldValues == { Str_abc_song, Str_My_ABC_Song, Str_xyz }

\* metadata maps with any subset of the four text fields
ScoredMetadata ==
    UNION { [fields -> TestFieldValues] : fields \in SUBSET Range(text_fields) }

DoCalculateTextRelevance ==
    /\ CallerReady
    /\ \E query \in TestPhrases, metadata \in ScoredMetadata :
          Apply("_calculate_text_relevance",
                [query |-> query, metadata |-> metadata],
                Outcome(store, nextId, clock, "ok", "",
                        _calculate_text_relevance(query, metadata), <<>>))
    /\ UNCHANGED writes

NextText ==
    \/ DoCalculateTextRelevance
    \/ DoStoreTrack

SpecText == Init /\ [][NextText]_vars

----------------------------------------------------------------------------
(* Caller weights: hybrid_search with weights mappings that leave out one  *)
(* or more of image, audio and text, on a stored catalogue.                *)

\* weights mappings of a caller: complete, one entry missing, and empty
PartialWeights ==
    { [image |-> 5, audio |-> 3, text |-> 1],
      [audio |-> 3, text |-> 1],
      [image |-> 5, text |-> 1],
      [image |-> 5, audio |-> 3],
      EmptyDict }

DoWeightedSearch ==
    /\ CallerReady
    /\ \E image_embeddings \in {None, Some(Const(512, 1))}, audio_embeddings \in TestAudios, text_query \in {None, Some(Str_abc)}, weights \in PartialWeights :
          LET searches == SearchesOf(image_embeddings, audio_embeddings, text_query)
          IN  \E scores \in [ScoredIds(store, searches) -> {60, 90}] :
                 Apply("hybrid_search",
                       [image_embeddings |-> image_embeddings,
                        audio_embeddings |-> audio_embeddings,
                        text_query |-> text_query, weights |-> Some(weights),
                        limit |-> 2, filters |-> None],
                       hybrid_search(store, nextId, clock, image_embeddings,
                                     audio_embeddings, text_query, Some(weights), 2,
                                     None, scores, "none"))
    /\ UNCHANGED writes

NextWeights ==
    \/ DoStoreCatalog
    \/ DoWeightedSearch

SpecWeights == Init /\ [][NextWeights]_vars

----------------------------------------------------------------------------
(* Accumulation: _merge_results called once per modality on an empty       *)
(* all_results, the modalities taken in any order.                         *)

\* candidates as similarity_search and _text_search hand them over: two points of
\* one track, a point without a track_id, and one whose id is falsy
Candidate(id, score, metadata) == [id |-> id, score |-> score, metadata |-> metadata]

TestCandidateLists ==
    { <<>>,
      <<Candidate(1, 90, [track_id |-> 901])>>,
      <<Candidate(1, 90, [track_id |-> 901]),
        Candidate(2, 80, [track_id |-> 901, title |-> Str_abc])>>,
      <<Candidate(3, 60, EmptyDict), Candidate(2, 80, [track_id |-> 901, title |-> Str_abc])>>,
      <<Candidate(0, 70, EmptyDict), Candidate(3, 90, [title |-> Str_Xabc])>> }

\* the search types of hybrid_search, in the order it takes them
search_types_in_order == <<"image", "audio", "hybrid", "text">>

\* the weight hybrid_search passes for each search type without caller weights
merge_weights ==
    [image |-> default_image_weight, audio |-> default_audio_weight,
     hybrid |-> hybrid_weight, text |-> default_text_weight]

\* every order of the search types
Orders ==
    {o \in [DOMAIN search_types_in_order -> Range(search_types_in_order)] :
        \A i, j \in DOMAIN o : o[i] = o[j] => i = j}

\* all_results after _merge_results for each search type of order, in turn
RECURSIVE merge_in_order(_, _, _)
merge_in_order(all_results, lists, order) ==
    IF order = <<>> THEN all_results
    ELSE merge_in_order(_merge_results(all_results, lists[Head(order)],
                                       merge_weights[Head(order)], Head(order)),
                        lists, Tail(order))

DoMergeResults ==
    /\ CallerReady
    /\ \E lists \in [Range(search_types_in_order) -> TestCandidateLists], order \in Orders :
          Apply("_merge_results", [lists |-> lists, order |-> order],
                Outcome(store, nextId, clock, "ok", "",
                        merge_in_order(EmptyResults, lists, order), <<>>))
    /\ UNCHANGED writes

NextMerge == DoMergeResults

SpecMerge == Init /\ [][NextMerge]_vars

----------------------------------------------------------------------------
(* One hybrid_search call followed statement by statement, on a catalogue  *)
(* stored before it.                                                       *)

MaxStepCatalog == 2

DoStoreStepCatalog ==
    \E collection \in Configured :
        StoreVectorStep({Const(collection_configs[collection].size, 1)}, CatalogMetadata,
                        {collection}, {FALSE}, MaxStepCatalog)

\* the call is entered: arguments bound, weights defaulted, all_results = {}
FusionCall ==
    /\ CallerReady
    /\ fusion = Idle
    /\ \E image_embeddings \in {None, Some(Const(512, 1))}, audio_embeddings \in TestAudios, text_query \in {None, Some(Str_abc)} :
          LET searches == SearchesOf(image_embeddings, audio_embeddings, text_query)
          IN  \E outage \in {"none"} \cup searches :
                 /\ op' = "hybrid_search"
                 /\ args' = [image_embeddings |-> image_embeddings,
                             audio_embeddings |-> audio_embeddings,
                             text_query |-> text_query, weights |-> None,
                             limit |-> 2, filters |-> None]
                 /\ fusion' = Entered([id \in ScoredIds(store, searches) |-> 90], outage)
    /\ status' = "running"
    /\ err' = ""
    /\ result' = <<>>
    /\ calls' = <<>>
    /\ UNCHANGED <<store, schemas, nextId, clock, writes>>

\* the `if` of the part is false: on to the next part
FusionSkip ==
    /\ fusion.pc \in {"image", "audio", "hybrid", "text"}
    /\ fusion.stage = "search"
    /\ ~part_applies(fusion.pc, args)
    /\ fusion' = [fusion EXCEPT !.pc = next_part(@)]
    /\ UNCHANGED <<store, schemas, nextId, clock, writes, op, args, status, err, result, calls>>

\* the part's search is issued and awaited
FusionAwait ==
    /\ fusion.pc \in {"image", "audio", "hybrid", "text"}
    /\ fusion.stage = "search"
    /\ part_applies(fusion.pc, args)
    /\ LET found == part_search(fusion.pc, store, args, fusion.scores, fusion.outage)
       IN  /\ fusion' = [fusion EXCEPT !.stage = "merge", !.found = Some(found),
                                       !.awaited = @ \cup {fusion.pc}]
           /\ calls' = calls \o found.calls
    /\ UNCHANGED <<store, schemas, nextId, clock, writes, op, args, status, err, result>>

\* the part's results are merged into all_results
FusionMerge ==
    /\ fusion.pc \in {"image", "audio", "hybrid", "text"}
    /\ fusion.stage = "merge"
    /\ fusion' = after_merge(fusion, part_merge(fusion.pc, fusion.run, TheValue(fusion.found),
                                                weights_or_default(args.weights)))
    /\ UNCHANGED <<store, schemas, nextId, clock, writes, op, args, status, err, result, calls>>

\* the sorted, cut list is returned, or the exception re-raised
FusionReturn ==
    /\ fusion.pc = "return"
    /\ LET out == final_results(fusion.run, store, nextId, clock, args.limit)
       IN  /\ status' = out.status
           /\ err' = out.err
           /\ result' = out.result
           /\ calls' = out.calls
    /\ fusion' = Idle
    /\ UNCHANGED <<store, schemas, nextId, clock, writes, op, args>>

NextFusionSteps ==
    \/ DoStoreStepCatalog
    \/ FusionCall
    \/ FusionSkip
    \/ FusionAwait
    \/ FusionMerge
    \/ FusionReturn

SpecFusionSteps == Init /\ [][NextFusionSteps]_vars

----------------------------------------------------------------------------
(* A point's life: put, read, update-metadata, delete by id and by filter, *)
(* on the music collection.  writes.single counts the calls that can       *)
(* change the collection.                                                  *)

MaxLifecycle == 3

\* caller metadata with a tempo class; one map brings its own created_at and
\* updated_at (0, which no clock reading is)
LifecycleMetadata ==
    { [tempo |-> 1],
      [tempo |-> 2],
      [tempo |-> 1, created_at |-> 0, updated_at |-> 0] }

\* what a caller passes to update_vector_metadata
UpdateMetadata ==
    { [tempo |-> 2],
      [created_at |-> 0],
      [updated_at |-> 0] }

\* expressions for delete_vectors_by_filter: one tempo class, an empty list, nothing
DeleteFilters ==
    { [tempo |-> Scalar(1)], [tempo |-> Scalar(2)], [tempo |-> ListOf(<<>>)], EmptyDict }

\* the number the backend gives the delete operation in its answer
TestOperationIds == {0, 1, 5}

DoPut ==
    StoreVectorStep({Const(128, 1)}, LifecycleMetadata, {music_collection}, {FALSE},
                    MaxLifecycle)

\* a call that can change the collection
ChangeStep(name, a, out) ==
    /\ CallerReady
    /\ writes.single < MaxLifecycle
    /\ Apply(name, a, out)
    /\ writes' = [writes EXCEPT !.single = @ + 1]

\* ids stored so far, deleted or not, and one that was never given out
DoDeleteVector ==
    \E vector_id \in 1..nextId, down \in BOOLEAN :
        ChangeStep("delete_vector",
                   [vector_id |-> vector_id, collection |-> music_collection],
                   delete_vector(store, nextId, clock, vector_id, music_collection, down))

DoDeleteVectorsByFilter ==
    \E filters \in DeleteFilters, operation_id \in TestOperationIds :
        ChangeStep("delete_vectors_by_filter",
                   [collection |-> music_collection, filters |-> filters],
                   delete_vectors_by_filter(store, nextId, clock, music_collection,
                                            filters, operation_id, FALSE))

DoUpdateVectorMetadata ==
    \E vector_id \in 1..nextId, metadata \in UpdateMetadata :
        ChangeStep("update_vector_metadata",
                   [vector_id |-> vector_id, collection |-> music_collection,
                    metadata |-> metadata],
                   update_vector_metadata(store, nextId, clock, vector_id,
                                          music_collection, metadata, FALSE))

NextLifecycle ==
    \/ DoPut
    \/ DoDeleteVector
    \/ DoDeleteVectorsByFilter
    \/ DoUpdateVectorMetadata
    \/ DoGetVectorById

SpecLifecycle == Init /\ [][NextLifecycle]_vars

----------------------------------------------------------------------------
(* Joint points: store_multimodal_vector with image and audio lists of the *)
(* configured lengths and one off either way, read back by id.             *)

MaxMultimodal == 2

\* image lists: the configured 512, one short, one long, empty
MultimodalImages == { Const(512, 1), Const(511, 1), Const(513, 1), <<>> }

\* audio lists: the configured 128, one short, one long
MultimodalAudios == { Const(128, 2), Const(127, 2), Const(129, 2) }

DoStoreMultimodalVector ==
    /\ CallerReady
    /\ writes.single < MaxMultimodal
    /\ \E image_embeddings \in MultimodalImages, audio_embeddings \in MultimodalAudios, metadata \in {EmptyDict, [title |-> Str_abc]}, down \in BOOLEAN :
          Apply("store_multimodal_vector",
                [image_embeddings |-> image_embeddings,
                 audio_embeddings |-> audio_embeddings, metadata |-> metadata],
                store_multimodal_vector(store, nextId, clock, image_embeddings,
                                        audio_embeddings, metadata, down))
    /\ writes' = [writes EXCEPT !.single = @ + 1]

DoGetJointPoint ==
    /\ CallerReady
    /\ \E vector_id \in 1..nextId :
          Apply("get_vector_by_id",
                [vector_id |-> vector_id, collection |-> hybrid_collection,
                 include_vector |-> TRUE],
                get_vector_by_id(store, nextId, clock, vector_id, hybrid_collection,
                                 TRUE, FALSE))
    /\ UNCHANGED writes

NextMultimodal ==
    \/ DoStoreMultimodalVector
    \/ DoGetJointPoint

SpecMultimodal == Init /\ [][NextMultimodal]_vars

----------------------------------------------------------------------------
(* Start-up: initialize_collections run, once or again, on a backend that  *)
(* earlier lives of the service, or other tools, left in any state.        *)

\* what the engine can hold under a configured name when the service starts
BackendConditions == {"absent", "empty", "stocked", "other_size", "other_distance"}

\* a point a former run stored in the k-th configured collection
FormerPoint(k) ==
    [id |-> k,
     vector |-> Const(collection_configs[configured_in_order[k]].size, 1),
     payload |-> [created_at |-> k, vector_id |-> k]]

FirstFreshId == Len(configured_in_order) + 1

\* the backend in which the k-th configured collection is in condition[k]
BackendIn(condition) ==
    LET present == {k \in DOMAIN configured_in_order : condition[k] # "absent"}
        names == {configured_in_order[k] : k \in present}
        IndexOf(c) == CHOOSE k \in present : configured_in_order[k] = c
    IN  [store |-> [c \in names |->
                      IF condition[IndexOf(c)] = "stocked"
                      THEN {FormerPoint(IndexOf(c))} ELSE {}],
         schemas |-> [c \in names |->
                        [size |-> IF condition[IndexOf(c)] = "other_size"
                                  THEN collection_configs[c].size + 1
                                  ELSE collection_configs[c].size,
                         distance |-> IF condition[IndexOf(c)] = "other_distance"
                                      THEN "Euclid"
                                      ELSE collection_configs[c].distance,
                         indexes |-> IF condition[IndexOf(c)] = "stocked"
                                     THEN index_fields ELSE {}]]]

InitStartup ==
    /\ \E condition \in [DOMAIN configured_in_order -> BackendConditions] :
          /\ store = BackendIn(condition).store
          /\ schemas = BackendIn(condition).schemas
    /\ nextId = FirstFreshId
    /\ clock = FirstFreshId
    /\ writes = [single |-> 0, batch |-> 0]
    /\ op = "init"
    /\ args = EmptyDict
    /\ status = "ok"
    /\ err = ""
    /\ result = None
    /\ calls = <<>>
    /\ fusion = Idle

\* at most one request of a run fails for a reason of the backend's own
TestFaults ==
    {[get_down |-> {}, create_down |-> {}, index_down |-> FALSE],
     [get_down |-> {}, create_down |-> {}, index_down |-> TRUE]}
    \cup {[get_down |-> {c}, create_down |-> {}, index_down |-> FALSE] : c \in Configured}
    \cup {[get_down |-> {}, create_down |-> {c}, index_down |-> FALSE] : c \in Configured}

\* the handler's outcome becomes the next state
ApplyStartup(faults, b) ==
    /\ op' = "initialize_collections"
    /\ args' = faults
    /\ status' = IF b.ok THEN "ok" ELSE "error"
    /\ err' = IF b.ok THEN "" ELSE "Backend"
    /\ result' = None
    /\ calls' = b.calls
    /\ store' = b.store
    /\ schemas' = b.schemas
    /\ UNCHANGED <<nextId, clock, writes, fusion>>

DoInitializeCollections ==
    \E faults \in TestFaults :
        ApplyStartup(faults,
                     initialize_collections(store, schemas, faults.get_down,
                                            faults.create_down, faults.index_down))

NextStartup == DoInitializeCollections

SpecStartup == InitStartup /\ [][NextStartup]_vars

----------------------------------------------------------------------------
(* Properties *)

server_fields == {"created_at", "vector_id"}

timestamp_fields == {"created_at", "updated_at"}

\* C1: store_vector on a configured collection with a non-empty vector of another
\* length than the collection's raises the size-mismatch error, issues no backend
\* request and leaves every collection's point set (hence its count) as it was.
C1_DimensionMismatchRejected ==
    [][(/\ op' = "store_vector"
        /\ args'.collection \in Configured
        /\ VLen(args'.embeddings) # 0
        /\ VLen(args'.embeddings) # collection_configs[args'.collection].size)
       => (/\ status' = "error"
           /\ err' = "DimensionMismatch"
           /\ calls' = <<>>
           /\ store' = store)]_vars

\* a mismatching store_vector was made on a collection that holds a point
C1_Witness ==
    /\ op = "store_vector"
    /\ err = "DimensionMismatch"
    /\ store[args.collection] # {}

\* the steps get(C, put(C, v, m)): a successful get_vector_by_id of the id a
\* successful store_vector has just returned, in the same collection
IsRoundTrip ==
    /\ op = "store_vector"
    /\ status = "ok"
    /\ op' = "get_vector_by_id"
    /\ status' = "ok"
    /\ args'.collection = args.collection
    /\ args'.vector_id = TheValue(result)

\* the vector part of the round trip: returned, and equal to v, when requested
RoundTripVector ==
    args'.include_vector =>
        /\ "vector" \in DOMAIN TheValue(result')
        /\ TheValue(result').vector = args.embeddings

\* C2 as stated: get(C, put(C, v, m)) returns the point with metadata m plus only
\* server-set timestamp fields, and with vector v when the vector is requested.
C2_Original ==
    [][IsRoundTrip =>
        /\ result' # None
        /\ LET md == TheValue(result').metadata
               m == args.metadata
           IN  /\ DOMAIN m \subseteq DOMAIN md
               /\ \A k \in DOMAIN md :
                      \/ k \in timestamp_fields
                      \/ (k \in DOMAIN m /\ md[k] = m[k])
        /\ RoundTripVector]_vars

\* C2 (amended): get(C, put(C, v, m)) returns the point with the id put returned,
\* whose metadata is m with two server-set fields added or overridden: created_at,
\* the clock reading of the put, and vector_id, the returned id; every other key of
\* m is kept with its value; and with vector v when the vector is requested.
C2_RoundTrip ==
    [][IsRoundTrip =>
        /\ result' # None
        /\ LET got == TheValue(result')
               md == TheValue(result').metadata
               m == args.metadata
           IN  /\ got.id = TheValue(result)
               /\ DOMAIN md = (DOMAIN m) \cup server_fields
               /\ \A k \in (DOMAIN m) \ server_fields : md[k] = m[k]
               /\ md["vector_id"] = TheValue(result)
               /\ md["created_at"] = clock - 1
        /\ RoundTripVector]_vars

\* a get with the vector requested returned a point whose caller metadata carried
\* its own created_at and vector_id
C2_Witness ==
    /\ op = "get_vector_by_id"
    /\ status = "ok"
    /\ result # None
    /\ args.include_vector
    /\ "vector" \in DOMAIN TheValue(result)
    /\ "title" \in DOMAIN TheValue(result).metadata
    /\ TheValue(result).metadata["created_at"] # 0

\* the items of a batch that store_vector would accept in that collection
valid_positions(vectors_data, collection) ==
    SelectSeq([i \in DOMAIN vectors_data |-> i],
              LAMBDA i : /\ has_required_keys(vectors_data[i])
                         /\ VLen(vectors_data[i]["embeddings"]) =
                                collection_configs[collection].size)

\* no backend request of the last operation failed for a reason of the backend's own
BackendUp == \A k \in DOMAIN calls : ~calls[k].down

\* C3 as stated: a batch_store_vectors call whose items are k valid items and any
\* number of items with a vector of the wrong size returns k ids and raises the
\* collection's count by exactly k (the backend being reachable).
C3_Original ==
    [][(/\ op' = "batch_store_vectors"
        /\ args'.collection \in Configured
        /\ \A i \in DOMAIN args'.vectors_data : has_required_keys(args'.vectors_data[i])
        /\ BackendUp')
       => LET k == Len(valid_positions(args'.vectors_data, args'.collection))
          IN  /\ status' = "ok"
              /\ Len(result') = k
              /\ Cardinality(store'[args'.collection]) =
                     Cardinality(store[args'.collection]) + k]_vars

\* the ids the upserts of the last operation carried, in the order sent
RECURSIVE UpsertedIds(_)
UpsertedIds(cs) ==
    IF cs = <<>> THEN <<>>
    ELSE (IF Head(cs).kind = "upsert" /\ Head(cs).ok THEN Head(cs).ids ELSE <<>>)
         \o UpsertedIds(Tail(cs))

\* C4 as stated: every id batch_store_vectors returns is the id of a point that the
\* call upserted, and it returns as many ids as it stored points.
C4_Original ==
    (op = "batch_store_vectors" /\ status = "ok") =>
        /\ Range(result) \subseteq Range(UpsertedIds(calls))
        /\ Len(result) = Len(UpsertedIds(calls))

\* the set S of numbers as an increasing sequence
RECURSIVE Ascending(_)
Ascending(S) ==
    IF S = {} THEN <<>>
    ELSE LET least == CHOOSE x \in S : \A y \in S : x <= y
         IN  <<least>> \o Ascending(S \ {least})

\* the chunk (1, 2, ...) that input position i falls in
ChunkOf(i) == ((i - 1) \div batch_size) + 1

\* the input positions of chunk c whose items are prepared, in order
PreparedIn(vectors_data, c) ==
    SelectSeq(prepared_positions(vectors_data), LAMBDA i : ChunkOf(i) = c)

\* the chunks with at least one prepared item, in order
UpsertingChunks(vectors_data) ==
    Ascending({ChunkOf(i) : i \in Range(prepared_positions(vectors_data))})

\* the id under which a point of `points` stores the item of input position i
StoredIdOf(points, i) == (CHOOSE q \in points : q.payload["track_no"] = i).id

\* where an id stands in the returned list
IndexIn(seq, x) == CHOOSE i \in DOMAIN seq : seq[i] = x

\* C5: batch_store_vectors cuts the input into consecutive chunks of at most
\* batch_size (100) items and sends one upsert per chunk that has an item to store,
\* in input order, each carrying that chunk's stored items in input order; the
\* returned list holds the ids chunk after chunk, so the id of a stored item at
\* position i stands before the id of a stored item at position j whenever i < j
\* (stated for neighbouring stored items, which gives it for all).
C5_ChunksInOrder ==
    (op = "batch_store_vectors") =>
        LET chunks == UpsertingChunks(args.vectors_data)
            kept == prepared_positions(args.vectors_data)
            sent == [k \in DOMAIN chunks |-> PreparedIn(args.vectors_data, chunks[k])]
        IN  /\ Len(calls) <= Len(chunks)
            /\ \A k \in DOMAIN calls :
                  /\ calls[k].kind = "upsert"
                  /\ calls[k].n = Len(sent[k])
                  /\ calls[k].n <= batch_size
            /\ status = "ok" =>
                  LET returned == Range(result)
                      mine == {q \in store[args.collection] : q.id \in returned}
                      idAt == [i \in Range(kept) |-> StoredIdOf(mine, i)]
                      at == [x \in Range(result) |-> IndexIn(result, x)]
                  IN  /\ Len(calls) = Len(chunks)
                      /\ \A k \in DOMAIN calls :
                            calls[k].ids = [r \in DOMAIN sent[k] |-> idAt[sent[k][r]]]
                      /\ \A r \in 1..(Len(kept) - 1) :
                            at[idAt[kept[r]]] < at[idAt[kept[r + 1]]]

\* a batch of three chunks was stored with two upserts: an item of the first chunk
\* was skipped, and the third chunk had nothing to store
C5_Witness ==
    /\ op = "batch_store_vectors"
    /\ status = "ok"
    /\ Len(args.vectors_data) > 2 * batch_size
    /\ Len(calls) = 2
    /\ calls[1].n < batch_size
    /\ calls[2].n = batch_size

\* C6: a successful similarity_search returns at most `limit` entries, each with a
\* score of at least `threshold`, in non-increasing score order, and they are the
\* backend's hits one for one, in the backend's order, with the backend's scores.
C6_SearchContract ==
    (op = "similarity_search" /\ status = "ok") =>
        /\ Len(result) <= args.limit
        /\ \A i \in DOMAIN result : result[i].score >= args.threshold
        /\ \A i, j \in DOMAIN result : i < j => result[i].score >= result[j].score
        /\ Len(calls) = 1
        /\ Len(result) = Len(calls[1].hits)
        /\ \A i \in DOMAIN result :
              /\ result[i].id = calls[1].hits[i].id
              /\ result[i].score = calls[1].hits[i].score

\* a search returned two entries of different scores
C6_Witness ==
    /\ op = "similarity_search"
    /\ status = "ok"
    /\ Len(result) = 2
    /\ result[1].score > result[2].score

\* C7 as stated: similarity_search with a non-empty query of another length than
\* the configured collection's raises the size-mismatch error before any backend
\* request; on a collection that is not configured it raises the unknown-collection
\* error, again without a backend request.
C7_Original ==
    (op = "similarity_search" /\ VLen(args.embeddings) # 0) =>
        /\ (/\ args.collection \in Configured
            /\ VLen(args.embeddings) # collection_configs[args.collection].size)
           => (status = "error" /\ err = "DimensionMismatch" /\ calls = <<>>)
        /\ args.collection \notin Configured
           => (status = "error" /\ err = "UnknownCollection" /\ calls = <<>>)

\* an Optional list or string that is None or empty
AbsentOrEmpty(x) == x = None \/ x = Some(<<>>)

\* C8: hybrid_search called with no image vector, no audio vector and no text phrase
\* (each None or empty) returns an empty list, raises nothing and issues no backend
\* request, whatever weights, limit and filters are.
C8_NoModalityEmptyList ==
    (/\ op = "hybrid_search"
     /\ AbsentOrEmpty(args.image_embeddings)
     /\ AbsentOrEmpty(args.audio_embeddings)
     /\ AbsentOrEmpty(args.text_query))
    => (status = "ok" /\ result = <<>> /\ calls = <<>>)

\* a call with an empty image list and an empty phrase, with weights and a filter
\* given, was made on a catalogue that has image points
C8_Witness ==
    /\ op = "hybrid_search"
    /\ args.image_embeddings = Some(<<>>)
    /\ args.audio_embeddings = None
    /\ args.text_query = Some(<<>>)
    /\ args.weights # None
    /\ args.filters # None
    /\ store[image_collection] # {}
    /\ status = "ok"

\* the modality a backend request of hybrid_search belongs to
ModalityOf(call) ==
    IF call.kind = "scroll" THEN "text"
    ELSE CASE call.collection = image_collection -> "image"
           [] call.collection = audio_collection -> "audio"
           [] call.collection = hybrid_collection -> "hybrid"

\* the entity key of a hit: its payload's track_id, else its point id
HitKey(hit) ==
    IF hit.payload # None /\ "track_id" \in DOMAIN TheValue(hit.payload)
    THEN TheValue(hit.payload)["track_id"]
    ELSE hit.id

\* the raw score of a hit: the backend's for a vector search, the text relevance
\* of the payload for the scan
RawScore(call, hit) ==
    IF call.kind = "scroll"
    THEN _calculate_text_relevance(TheValue(args.text_query), TheValue(hit.payload))
    ELSE hit.score

\* the weight a modality's candidates are to be accumulated with
WeightFor(modality) ==
    IF modality = "hybrid" THEN hybrid_weight
    ELSE IF args.weights = None THEN default_weights[modality]
    ELSE TheValue(args.weights)[modality]

\* the candidates (request, position) of the last call that resolve to a key
CandidatesOf(key) ==
    {c \in UNION {{<<k, i>> : i \in DOMAIN calls[k].hits} : k \in DOMAIN calls} :
        HitKey(calls[c[1]].hits[c[2]]) = key}

\* C9: in a fusion result, an entry whose key was returned by exactly one candidate
\* of one modality has combined score raw score * that modality's weight, and its
\* individual_scores holds that modality alone, with the raw score.
C9_SingleModalityScore ==
    (op = "hybrid_search" /\ status = "ok") =>
        \A n \in DOMAIN result :
            LET cands == CandidatesOf(result[n].id)
            IN  Cardinality(cands) = 1 =>
                    LET c == CHOOSE x \in cands : TRUE
                        modality == ModalityOf(calls[c[1]])
                        raw == RawScore(calls[c[1]], calls[c[1]].hits[c[2]])
                    IN  /\ result[n].score = raw * WeightFor(modality)
                        /\ result[n].individual_scores = (modality :> raw)

\* a call with caller weights made two searches and returned an entry that only
\* the image search had found
C9_Witness ==
    /\ op = "hybrid_search"
    /\ status = "ok"
    /\ args.weights # None
    /\ Len(calls) >= 2
    /\ Len(result) >= 1
    /\ result[1].search_types = {"image"}
    /\ Cardinality(CandidatesOf(result[1].id)) = 1

\* C10 as stated: when the backend request of exactly one of the image, audio, joint
\* or text searches of a hybrid_search fails, the call still returns.
C10_Original ==
    (/\ op = "hybrid_search"
     /\ Cardinality({k \in DOMAIN calls : calls[k].down}) = 1)
    => status = "ok"

\* the candidate list a request of the last hybrid_search handed to the merge
CandidateList(call) ==
    IF call.kind = "scroll"
    THEN [i \in DOMAIN call.hits |->
            [id |-> call.hits[i].id, score |-> RawScore(call, call.hits[i]),
             metadata |-> TheValue(call.hits[i].payload)]]
    ELSE format_results(call.hits, call.collection, TRUE)

\* the accumulator after the candidate lists of the requests cs, merged in order
RECURSIVE FuseCalls(_, _)
FuseCalls(all_results, cs) ==
    IF cs = <<>> THEN all_results
    ELSE FuseCalls(_merge_results(all_results, CandidateList(Head(cs)),
                                  WeightFor(ModalityOf(Head(cs))), ModalityOf(Head(cs))),
                   Tail(cs))

\* the requests that came back with at least one candidate
WithCandidates(cs) == SelectSeq(cs, LAMBDA c : c.hits # <<>>)

\* no vector search of the last call failed in the backend
VectorSearchesUp == \A k \in DOMAIN calls : calls[k].down => calls[k].kind = "scroll"

\* C11: a hybrid_search whose vector searches all answer returns, and what it returns
\* is the fusion of the candidate lists that are not empty: the searches that found
\* nothing (an empty collection, no point over the threshold, a failed text scan)
\* change no id, score, individual score or position.
C11_EmptyModalityIgnored ==
    (op = "hybrid_search" /\ VectorSearchesUp) =>
        /\ status = "ok"
        /\ result = FirstN(sorted_by_score(result_items(
                               FuseCalls(EmptyResults, WithCandidates(calls)))),
                           args.limit)

\* an image search found a point while the audio and joint searches found nothing
C11_Witness ==
    /\ op = "hybrid_search"
    /\ status = "ok"
    /\ Len(calls) >= 3
    /\ calls[1].hits # <<>>
    /\ calls[2].hits = <<>>
    /\ calls[3].hits = <<>>
    /\ result # <<>>

\* every candidate (request, position) of the last call
AllCandidates == UNION {{<<k, i>> : i \in DOMAIN calls[k].hits} : k \in DOMAIN calls}

\* C12: every entry of a fusion result carries the key of a candidate (its payload's
\* track_id when it has one, else its point id), its search types are the modalities
\* of all candidates with that key, whatever collections they come from, and no two
\* entries have the same id.
C12_IdentityResolution ==
    (op = "hybrid_search" /\ status = "ok") =>
        /\ \A n \in DOMAIN result :
              /\ CandidatesOf(result[n].id) # {}
              /\ result[n].search_types
                     = {ModalityOf(calls[c[1]]) : c \in CandidatesOf(result[n].id)}
        /\ \A n, m \in DOMAIN result : result[n].id = result[m].id => n = m

\* a track stored in the image and in the audio collection came back as one entry
\* under its track_id, found by both searches
C12_Witness ==
    /\ op = "hybrid_search"
    /\ status = "ok"
    /\ \E n \in DOMAIN result :
          /\ {"image", "audio"} \subseteq result[n].search_types
          /\ result[n].id \notin StoredIds(store, image_collection)
          /\ \E c \in CandidatesOf(result[n].id) : calls[c[1]].hits[c[2]].id # result[n].id

\* position of a key in the accumulator's insertion order
KeyPosition(all_results, key) ==
    CHOOSE i \in DOMAIN all_results.keys : all_results.keys[i] = key

\* key a ranks before key b: higher combined score, or the same and inserted first
RanksBefore(all_results, a, b) ==
    \/ all_results.entry[a].combined_score > all_results.entry[b].combined_score
    \/ /\ all_results.entry[a].combined_score = all_results.entry[b].combined_score
       /\ KeyPosition(all_results, a) < KeyPosition(all_results, b)

\* C13: the list a hybrid_search returns has min(limit, number of keys) entries, one
\* per key and with the key's combined score; each entry ranks before the next, and
\* every entry ranks before every key left out (higher combined score, or the same
\* score and inserted earlier in the accumulator).
C13_RankedAndTruncated ==
    (op = "hybrid_search" /\ status = "ok") =>
        LET all_results == FuseCalls(EmptyResults, calls)
            returned == {result[n].id : n \in DOMAIN result}
        IN  /\ Len(result) = Min(args.limit, Len(all_results.keys))
            /\ \A n \in DOMAIN result :
                  /\ result[n].id \in Range(all_results.keys)
                  /\ result[n].score = all_results.entry[result[n].id].combined_score
            /\ \A n \in 1..(Len(result) - 1) :
                  RanksBefore(all_results, result[n].id, result[n + 1].id)
            /\ \A k \in Range(all_results.keys) \ returned :
                  \A n \in DOMAIN result : RanksBefore(all_results, result[n].id, k)

\* two keys with the same combined score, the later inserted one cut off by limit 1
C13_Witness ==
    /\ op = "hybrid_search"
    /\ status = "ok"
    /\ LET all_results == FuseCalls(EmptyResults, calls)
       IN  /\ Len(all_results.keys) = 2
           /\ Len(result) = 1
           /\ result[1].id = all_results.keys[1]
           /\ all_results.entry[all_results.keys[1]].combined_score
                  = all_results.entry[all_results.keys[2]].combined_score

\* the requests of the last call that went to the joint collection
JointCalls == {k \in DOMAIN calls : calls[k].collection = hybrid_collection}

\* C14: a hybrid_search that returns has searched the joint collection exactly when
\* an image and an audio vector were both supplied; the query is the image vector
\* followed by the audio vector, and an entry that one candidate of the joint search
\* alone stands for has combined score raw score * 0.3, with or without caller weights.
C14_JointSearch ==
    (op = "hybrid_search" /\ status = "ok") =>
        /\ (JointCalls # {})
               <=> (supplied(args.image_embeddings) /\ supplied(args.audio_embeddings))
        /\ Cardinality(JointCalls) <= 1
        /\ \A k \in JointCalls :
              calls[k].query_vector = VConcat(TheValue(args.image_embeddings),
                                              TheValue(args.audio_embeddings))
        /\ \A n \in DOMAIN result :
              (/\ result[n].search_types = {"hybrid"}
               /\ Cardinality(CandidatesOf(result[n].id)) = 1) =>
                  \A c \in CandidatesOf(result[n].id) :
                      result[n].score = hybrid_weight * calls[c[1]].hits[c[2]].score

\* with caller weights, the joint search alone found the first entry
C14_Witness ==
    /\ op = "hybrid_search"
    /\ status = "ok"
    /\ args.weights # None
    /\ JointCalls # {}
    /\ result # <<>>
    /\ result[1].search_types = {"hybrid"}
    /\ Cardinality(CandidatesOf(result[1].id)) = 1

\* the ids of the entries of a result list
ResultIds == {result[n].id : n \in DOMAIN result}

\* the stored tracks one of whose text fields contains the phrase
TextMatches(text_query) ==
    {p.id : p \in {q \in store[music_collection] :
                     \E i \in DOMAIN text_fields :
                        /\ text_fields[i] \in DOMAIN q.payload
                        /\ Contains(text_query, q.payload[text_fields[i]])}}

\* C15: _build_search_filter of an empty expression is None, and with a filter that
\* is None or an empty dict a search wide enough returns every point of the
\* collection, a count is the number of its points, and the text scan of a
\* hybrid_search returns every track that matches the phrase.
C15_EmptyFilterAdmitsAll ==
    /\ _build_search_filter(EmptyDict) = None
    /\ (args # EmptyDict /\ "filters" \in DOMAIN args
        /\ args.filters \in {None, Some(EmptyDict)} /\ status = "ok") =>
           /\ op = "similarity_search" =>
                 /\ calls[1].query_filter = None
                 /\ ResultIds = StoredIds(store, args.collection)
           /\ op = "count_vectors" => result = Cardinality(store[args.collection])
           /\ op = "hybrid_search" =>
                 /\ Len(calls) = 1
                 /\ ResultIds = TextMatches(TheValue(args.text_query))

\* a text scan with an empty dict for a filter returned both stored tracks
C15_Witness ==
    /\ op = "hybrid_search"
    /\ args.filters = Some(EmptyDict)
    /\ status = "ok"
    /\ Len(result) = 2
    /\ Cardinality(store[music_collection]) = 2

\* one bound of a range object holds for a number
BoundHolds(bound, limit, x) ==
    CASE bound = "gte" -> x >= limit
      [] bound = "lte" -> x <= limit
      [] bound = "gt" -> x > limit
      [] bound = "lt" -> x < limit

\* a point satisfies what an expression says about one field
FieldSatisfied(key, value, payload) ==
    CASE value.kind = "scalar" -> key \in DOMAIN payload /\ payload[key] = value.v
      [] value.kind = "list" ->
            key \in DOMAIN payload /\ payload[key] \in Range(value.items)
      [] value.kind = "dict" ->
            \A bound \in (DOMAIN value.d) \cap range_keys :
                key \in DOMAIN payload /\ BoundHolds(bound, value.d[bound], payload[key])

\* a point satisfies an expression: every field is satisfied
Satisfies(filters, payload) ==
    \A key \in DOMAIN filters : FieldSatisfied(key, filters[key], payload)

\* an expression whose range objects hold bound names only
OnlyKnownBounds(filters) ==
    \A key \in DOMAIN filters :
        filters[key].kind = "dict" => (DOMAIN filters[key].d) \subseteq range_keys

\* C16 as stated: a search with a filter expression (scalars, sets of values, range
\* objects of gte/lte/gt/lt), wide enough to return every eligible point, returns
\* exactly the points that satisfy every field of the expression; an empty set of
\* values is satisfied by no point.
C16_Original ==
    (/\ op = "similarity_search"
     /\ status = "ok"
     /\ args.filters # None
     /\ OnlyKnownBounds(TheValue(args.filters)))
    => ResultIds = {p.id : p \in {q \in store[args.collection] :
                                    Satisfies(TheValue(args.filters), q.payload)}}

\* an expression with a range object that has a key other than the bound names
HasUnknownRangeKey(filters) ==
    \E key \in DOMAIN filters :
        /\ filters[key].kind = "dict"
        /\ ~((DOMAIN filters[key].d) \subseteq range_keys)

\* the expression with the unknown keys of its range objects removed
WithoutUnknownKeys(filters) ==
    [key \in DOMAIN filters |->
        IF filters[key].kind = "dict"
        THEN [kind |-> "dict", accepted |-> TRUE,
              d |-> [b \in (DOMAIN filters[key].d) \cap range_keys |-> filters[key].d[b]]]
        ELSE filters[key]]

\* C17 as stated: a search or a count whose filter has a range object with keys
\* other than gte, lte, gt, lt does not fail on the filter, and the predicate it
\* sends is the one built from the expression without those keys.
C17_Original ==
    (/\ op \in {"similarity_search", "count_vectors"}
     /\ args.collection = music_collection
     /\ args.filters # None
     /\ HasUnknownRangeKey(TheValue(args.filters))
     /\ \A k \in DOMAIN calls : ~calls[k].down)
    => /\ status = "ok"
       /\ Len(calls) = 1
       /\ calls[1].kind \in {"search", "count"} =>
             calls[1].query_filter
                 = _build_search_filter(WithoutUnknownKeys(TheValue(args.filters)))

\* what the rule gives a field of weight w (in hundredths): w when the lower-cased
\* value contains the lower-cased phrase, and w/2 more when it starts with it
FieldTerm(q, md, field, w) ==
    LET value == IF field \in DOMAIN md THEN Lower(md[field]) ELSE <<>>
    IN  (IF Contains(Lower(q), value) THEN w ELSE 0)
        + (IF Contains(Lower(q), value) /\ StartsWith(value, Lower(q)) THEN w \div 2
           ELSE 0)

\* C18: the text relevance of a phrase q and a metadata map md is the smaller of 1.0
\* and the sum of the terms of title (0.4), artist (0.3), album (0.2) and genre
\* (0.1); it lies in [0,1], is 0 exactly when no field contains q, and is 0.6 for
\* q = "abc" and a map with the title "abc song" only (scores in hundredths).
C18_TextRelevance ==
    op = "_calculate_text_relevance" =>
        LET q == args.query
            md == args.metadata
        IN  /\ result = Min(100, FieldTerm(q, md, "title", 40)
                                   + FieldTerm(q, md, "artist", 30)
                                   + FieldTerm(q, md, "album", 20)
                                   + FieldTerm(q, md, "genre", 10))
            /\ result \in 0..100
            /\ (result = 0) <=>
                  \A i \in DOMAIN text_fields :
                      ~Contains(Lower(q), IF text_fields[i] \in DOMAIN md
                                          THEN Lower(md[text_fields[i]]) ELSE <<>>)
            /\ (q = Str_abc /\ md = [title |-> Str_abc_song]) => result = 60

\* the phrase "abc" was scored against a map whose only field is the title
\* "abc song"
C18_Witness ==
    /\ op = "_calculate_text_relevance"
    /\ args.query = Str_abc
    /\ args.metadata = [title |-> Str_abc_song]
    /\ result = 60

\* the create_collection requests among a run's requests
CreateCalls(cs) == {k \in DOMAIN cs : cs[k].kind = "create_collection"}

\* a collection as the claim sees it: its points, its dimension and its metric
CollectionState(st, sch, c) ==
    [points |-> st[c], size |-> sch[c].size, distance |-> sch[c].distance]

\* what every run of initialize_collections keeps to: a run that succeeds leaves
\* every configured collection in existence; every collection that existed is still
\* there with its points, dimension and metric; a collection is created only when it
\* was absent; and a successful run right after a successful run changes no
\* collection
StartupKeepsCollections ==
    /\ status' = "ok" => Configured \subseteq DOMAIN store'
    /\ \A c \in DOMAIN store :
          /\ c \in DOMAIN store'
          /\ CollectionState(store', schemas', c) = CollectionState(store, schemas, c)
    /\ \A k \in CreateCalls(calls') :
          calls'[k].ok => calls'[k].collection \notin DOMAIN store
    /\ (op = "initialize_collections" /\ status = "ok" /\ status' = "ok") =>
          DOMAIN store' = DOMAIN store

C20_Original ==
    (op = "initialize_collections" /\ status = "ok") =>
        \A c \in Configured :
            /\ schemas[c].size = collection_configs[c].size
            /\ schemas[c].distance = collection_configs[c].distance

\* C21 as stated: get and delete on an id that is not present in the collection
\* (never stored, or already deleted) both report a not-found outcome: get never
\* returns a point for it and delete never reports success for it.
C21_Original ==
    [][/\ (op' = "get_vector_by_id"
             /\ args'.vector_id \notin StoredIds(store, args'.collection))
          => ~(status' = "ok" /\ result' # None)
       /\ (op' = "delete_vector"
             /\ args'.vector_id \notin StoredIds(store, args'.collection))
          => ~(status' = "ok" /\ result' = TRUE)]_vars

\* the points of a collection that an expression's predicate admits
MatchedBy(st, collection, filters) ==
    {p \in st[collection] : filter_holds(_build_search_filter(filters), p.payload)}

\* C22 as stated: delete_vectors_by_filter returns the number of points it removed:
\* the collection count before the call minus the count after it, which is the
\* number of points that matched the filter.
C22_Original ==
    [][(op' = "delete_vectors_by_filter" /\ status' = "ok") =>
          /\ result' = Cardinality(store[args'.collection])
                         - Cardinality(store'[args'.collection])
          /\ result' = Cardinality(MatchedBy(store, args'.collection, args'.filters))]_vars

\* the point of that id in a set of points, as a set
PointOf(points, id) == {p \in points : p.id = id}

\* C23 as stated: created_at and updated_at are set only by the store: after any
\* put or update-metadata call, whatever metadata the caller passes, every point's
\* created_at is the clock reading stamped when it was created (unchanged for a
\* point that was there, the current reading for a new one) and its updated_at,
\* when it has one, is a clock reading, never a caller-supplied value.
C23_Original ==
    [][\A q \in store'[music_collection] :
          /\ IF PointOf(store[music_collection], q.id) # {}
             THEN \A p \in PointOf(store[music_collection], q.id) :
                      q.payload.created_at = p.payload.created_at
             ELSE q.payload.created_at = clock
          /\ "updated_at" \in DOMAIN q.payload => q.payload.updated_at \in 1..clock]_vars

\* the points a call added to the hybrid collection
NewJointPoints == store'[hybrid_collection] \ store[hybrid_collection]

\* C24 as stated: a successful store_multimodal_vector stores exactly one point in
\* the joint collection whose vector is the image vector followed by the audio
\* vector, the image part of length 512 and the audio part of length 128; any call
\* whose image or audio part has a different length fails and stores nothing.
C24_Original ==
    [][op' = "store_multimodal_vector" =>
          /\ status' = "ok" =>
                /\ Cardinality(NewJointPoints) = 1
                /\ \A p \in NewJointPoints :
                      p.vector = VConcat(args'.image_embeddings, args'.audio_embeddings)
                /\ VLen(args'.image_embeddings) = image_size
                /\ VLen(args'.audio_embeddings) = audio_size
          /\ (VLen(args'.image_embeddings) # image_size
                \/ VLen(args'.audio_embeddings) # audio_size)
             => (status' = "error" /\ store' = store)]_vars

\* a step of a hybrid_search call that puts a candidate into all_results
Accumulates ==
    /\ fusion.pc # "idle"
    /\ fusion'.pc # "idle"
    /\ fusion'.run.all_results # fusion.run.all_results

\* C25 as stated: within one hybrid_search call, a candidate is accumulated only
\* after every search of the call (image, audio, joint, text, as its inputs ask for)
\* has been issued and has come back.
C25_Original ==
    [][Accumulates =>
          SearchesOf(args.image_embeddings, args.audio_embeddings, args.text_query)
              \subseteq fusion.awaited]_vars

\* what accumulation is to agree on: each key's combined score and individual scores
ScoresOf(all_results) ==
    [k \in DOMAIN all_results.entry |->
        [combined_score |-> all_results.entry[k].combined_score,
         scores |-> all_results.entry[k].scores]]

\* C26: for any candidate lists, merging them into an empty accumulator in any order
\* of the modalities yields the same keys, each with the same combined score and the
\* same individual scores, as merging them in hybrid_search's own order (scores in
\* hundredths, weights in tenths).
C26_OrderIndependent ==
    op = "_merge_results" =>
        /\ Range(result.keys) = DOMAIN result.entry
        /\ ScoresOf(result)
              = ScoresOf(merge_in_order(EmptyResults, args.lists, search_types_in_order))

\* the lists were merged text first and image last, one track found by three
\* modalities and twice by one of them, and the keys came out in another order
\* than in hybrid_search's own
C26_Witness ==
    /\ op = "_merge_results"
    /\ args.order = <<"text", "hybrid", "audio", "image">>
    /\ Len(args.lists["image"]) = 2
    /\ 901 \in DOMAIN result.entry
    /\ Cardinality(DOMAIN result.entry[901].scores) >= 3
    /\ result.keys
          # merge_in_order(EmptyResults, args.lists, search_types_in_order).keys

\* sum over the modalities of a set of individual score * the modality's weight
RECURSIVE WeightedSum(_, _)
WeightedSum(scores, modalities) ==
    IF modalities = {} THEN 0
    ELSE LET m == CHOOSE x \in modalities : TRUE
         IN  scores[m] * WeightFor(m) + WeightedSum(scores, modalities \ {m})

\* C27 as stated: in every fusion result, also when several points of one modality
\* resolve to the same entity key, an entry's score is the sum over the modalities in
\* its individual_scores of individual score * weight (0.3 for the joint modality),
\* and search_types is exactly the set of keys of individual_scores and is not empty.
C27_Original ==
    (op = "hybrid_search" /\ status = "ok") =>
        \A n \in DOMAIN result :
            /\ result[n].score = WeightedSum(result[n].individual_scores,
                                             DOMAIN result[n].individual_scores)
            /\ result[n].search_types = DOMAIN result[n].individual_scores
            /\ result[n].search_types # {}

\* the weight of a modality under the caller's mapping, its default where the
\* mapping has no entry for it
WeightOrDefault(modality) ==
    IF modality = "hybrid" THEN hybrid_weight
    ELSE IF modality \in DOMAIN TheValue(args.weights)
    THEN TheValue(args.weights)[modality]
    ELSE default_weights[modality]

\* C28 as stated: a hybrid_search whose weights mapping lacks an entry for a supplied
\* modality (image, audio or text) does not fail, and the modality's candidates are
\* accumulated with its default weight (0.4, 0.4, 0.2): an entry that one candidate
\* alone stands for has score raw score * that weight.
C28_Original ==
    (op = "hybrid_search" /\ args.weights # None) =>
        /\ status = "ok"
        /\ \A n \in DOMAIN result :
              \A c \in CandidatesOf(result[n].id) :
                  Cardinality(CandidatesOf(result[n].id)) = 1 =>
                      result[n].score
                          = RawScore(calls[c[1]], calls[c[1]].hits[c[2]])
                              * WeightOrDefault(ModalityOf(calls[c[1]]))

\* C29 as stated: initialize_collections issues a create-collection request only for
\* a collection that is absent from the backend; when the collection exists but the
\* existence check fails for another reason, no create request is issued for it.
C29_Original ==
    [][op' = "initialize_collections" =>
          \A k \in CreateCalls(calls') : calls'[k].collection \notin DOMAIN store]_vars

\* the conditions of the predicate an expression translates to
TranslatedConditions(filters) ==
    IF _build_search_filter(filters) = None THEN {}
    ELSE TheValue(_build_search_filter(filters)).must

\* C30: a hybrid_search that returns, called with a non-empty filter F, has sent the
\* predicate F translates to with every request it made (image, audio, joint, and the
\* text scan, where it stands next to the phrase condition), one request per
\* modality its inputs ask for, and every candidate a request returned, hence every
\* candidate behind an entry's score, is a point that satisfies F.
C30_FilterOnEveryModality ==
    (op = "hybrid_search" /\ status = "ok" /\ filters_given(args.filters)) =>
        /\ {ModalityOf(calls[k]) : k \in DOMAIN calls}
              = SearchesOf(args.image_embeddings, args.audio_embeddings, args.text_query)
        /\ \A k \in DOMAIN calls :
              /\ calls[k].query_filter # None
              /\ TranslatedConditions(TheValue(args.filters)) # {}
              /\ TranslatedConditions(TheValue(args.filters))
                    \subseteq TheValue(calls[k].query_filter).must
              /\ calls[k].kind = "search" =>
                    TheValue(calls[k].query_filter).must
                        = TranslatedConditions(TheValue(args.filters))
              /\ \A i \in DOMAIN calls[k].hits :
                    Satisfies(TheValue(args.filters), TheValue(calls[k].hits[i].payload))

\* a filtered call made all four searches and returned an entry, while a collection
\* it searched holds a point that does not satisfy the filter
C30_Witness ==
    /\ op = "hybrid_search"
    /\ status = "ok"
    /\ filters_given(args.filters)
    /\ Len(calls) = 4
    /\ result # <<>>
    /\ \E k \in DOMAIN calls :
          \E p \in store[calls[k].collection] :
              ~Satisfies(TheValue(args.filters), p.payload)

====
